---------------------------- MODULE Spec2Model ----------------------------
(***************************************************************************)
(* Ingestion, persistence, feedback and query path of the RAG backend.     *)
(*                                                                         *)
(* Strings that the code concatenates (ids, owner ids, chunk texts) are    *)
(* sequences of one-character strings, so that concatenation is \o.        *)
(* md5 + UUID formatting is taken to be injective on its input string: a   *)
(* content id is represented by the string that is hashed.                 *)
(***************************************************************************)
EXTENDS Integers, Sequences, FiniteSets, Bags, TLC

-----------------------------------------------------------------------------
(* Bounds of the model *)

\* load events the emitters may publish on the rag queue
MaxLoads == 2
\* malformed and update events the emitters may publish on the rag queue
MaxOther == 1
\* calls that a backend (loader, stores, broker, embedding server) rejects
MaxFaults == 2
\* the same two bounds when the persist workers run as well
MaxPipeLoads == 1
MaxPipeFaults == 2
\* save events the vector-store backend is handed, their size, rejected calls
MaxSaves == 3
MaxBatch == 2
MaxStoreFaults == 1
\* votes and rejected calls of the feedback loop
MaxVotes == 2
\* votes published and not yet delivered
MaxPending == 1
MaxFeedbackFaults == 1
\* votes, searches and rejected calls when the query engine runs as well
MaxSearchVotes == 1
MaxSearches == 1
MaxSearchFaults == 1

-----------------------------------------------------------------------------
(* Fixed universe *)

Resources == {"r1"}
Contents == {"A", "B"}
NoContent == "none"
CollectionId == <<"c">>
OwnerOf(r) == <<"a">>
Owners == {<<"a">>, <<"b">>}
Public == <<"public">>
Queries == {<<"p">>, <<"q">>, <<"r">>}
\* topK a caller may give; 0 stands for a call that gives none
TopKs == {0, 1, 2}

RAG_QUEUE == "rag"
MONGO_QUEUE == "mongo-sync"
QDRANT_USA_QUEUE == "qdrant-usa-sync"
QDRANT_INDIA_QUEUE == "qdrant-india-sync"
FEEDBACK_QUEUE == "search-feedback"
PersistQueues == {MONGO_QUEUE, QDRANT_USA_QUEUE, QDRANT_INDIA_QUEUE}
QdrantQueues == {QDRANT_USA_QUEUE, QDRANT_INDIA_QUEUE}
ConsumerQueues == {RAG_QUEUE, FEEDBACK_QUEUE} \cup PersistQueues

\* the vector-store collection of a collection, and of its feedback
ChunkColl == "c"
FeedbackColl == "feedback_c"
CollNames == {ChunkColl, FeedbackColl}

Undefined == <<"?">>
Null == <<"null">>

\* the constant of Reciprocal Rank Fusion
RRF_K == 60
\* candidates the query engine retrieves before reranking
CANDIDATES == 50
\* prior queries the query engine fuses
FEEDBACK_LIMIT == 5
\* options.topK when the caller gives none
DEFAULT_TOPK == 5
\* score above which a feedback event joins the nearest FeedbackDoc (0.9)
MERGE_THRESHOLD == 9000
\* score above which a prior query takes part in fusion (0.85)
FUSE_THRESHOLD == 8500

\* Doc.chunk: the splitter is a deterministic function of the content
SplitText(content) ==
    IF content = "A" THEN << <<"x">>, <<"y">> >>
    ELSE IF content = "B" THEN << <<"y">>, <<"z">> >>
    ELSE << >>

\* generateContentId(text, collectionId, ownerId)
generateContentId(text, collectionId, ownerId) ==
    IF text = << >> THEN Undefined
    ELSE collectionId \o <<":">> \o ownerId \o <<":">> \o text

SeqToSet(s) == {s[i] : i \in 1..Len(s)}

-----------------------------------------------------------------------------
VARIABLES
    ragQ,        \* the rag queue: ingest events not yet delivered
    persistQ,    \* the three queues bound to chunk_exchange
    dlq,         \* bag of [queue, content] published to dead-letter queues
    resource,    \* document store: the Resource records
    mongo,       \* document store: the Chunk records
    qdrant,      \* vector store: collection name -> [exists, points]
    last,        \* per consumer: outcome of the last handler run
    blocked,     \* per consumer: a delivered message was left unacked
    processed,   \* per resource: ingest events processed so far, in order
    uuid,        \* uuidv4 draws so far
    purged,      \* per persist queue and resource: its consumer has processed
                 \* the delete, and no chunk event was processed since
    settings,    \* the collection's settings: [sparse, rerank]
    budget,      \* what the environment may still do
    build,       \* which of the two hybridSearch of service/qdrant.ts is built
    fbQ,         \* the search-feedback queue
    feedbackDocs,\* document store: the FeedbackDoc records
    votes,       \* per FeedbackDoc and chunk: the votes recorded, [up, down]
    trained,     \* trainingCount of the collection's adapter
    triples,     \* (collectionId, ownerId, data+vectorSource) saved so far
    result       \* outcome of the last search

VARIABLES
    keepDuplicateSetting,\* the collection's keepDuplicate setting
    texts,       \* encoder: the texts of the generateEmbedding call under way
    batches,     \* encoder: what createOptimizedBatches made of them
    request,     \* encoder: the axios request under way
    embeddingsMap,\* encoder: originalIndex -> embedding, as filled so far
    posts,       \* encoder: the texts of every batch handed to axios.post
    encoded,     \* encoder: outcome of the last generateEmbedding call
    chunker,     \* semantic chunker: [minChunkSize, maxChunkSize]
    sentences,   \* semantic chunker: the sentences of the content
    breakpoints, \* semantic chunker: the indices findBreakpoints returned
    chunkTexts,  \* semantic chunker: whether chunk returned, and what
    adapters,    \* adapter service: the cached adapter of the collection
    adapterFile, \* adapter service: the stored record of the collection
    completed,   \* adapter service: train calls that ran to their end
    calls,       \* adapter service: calls made so far
    lastCall,    \* adapter service: the last call, what it was given and gave
    evalResult   \* evaluation: the EvalResult of the last test case scored

VARIABLES
    collectionDoc,\* document store: the Collection record, or that it is gone
    redisCache,  \* short-TTL cache: what is held under the collection's key
    getting,     \* per caller of getCollectionById: where it is, what it holds
    writing      \* the caller of updateCollection / deleteCollection

\* what only the collection service touches
kvars == <<collectionDoc, redisCache, getting, writing>>
VARIABLES
    instanceCache,\* adapter service: the instance its Map holds, 0 for none
    instancesMade,\* adapter service: LinearProjectionAdapter objects made so far
    cleared,     \* adapter service: clearCache calls so far
    getAdapterCall\* per caller of getAdapter: where it is, what it holds

\* what only overlapping getAdapter calls touch
gvars == <<instanceCache, instancesMade, cleared, getAdapterCall>>
VARIABLES
    inserting    \* per vector-store consumer: where its insert call is

\* what only the steps of insert touch
nvars == <<inserting>>
\* what the services modelled above leave alone
zvars == <<kvars, gvars, nvars>>

\* what only the ingestion pipeline touches
ivars == <<ragQ, persistQ, resource, mongo, processed, uuid, purged>>
\* what only the feedback loop and the query engine touch
fvars == <<build, fbQ, feedbackDocs, votes, trained, triples, result>>
\* what only the embedding client touches
evars == <<texts, batches, request, embeddingsMap, posts, encoded>>
\* what the services of the ingestion, feedback and query paths leave alone
\* what only the semantic chunker touches
cvars == <<chunker, sentences, breakpoints, chunkTexts>>
\* what only the adapter service touches
avars == <<adapters, adapterFile, completed, calls, lastCall>>
xvars == <<keepDuplicateSetting, evars, cvars, avars, evalResult, zvars>>
\* what those services touch
svars == <<ragQ, persistQ, dlq, resource, mongo, qdrant, last, blocked,
           processed, uuid, purged, settings, budget, build, fbQ,
           feedbackDocs, votes, trained, triples, result>>
vars == <<ragQ, persistQ, dlq, resource, mongo, qdrant, last, blocked,
          processed, uuid, purged, settings, budget, build, fbQ,
          feedbackDocs, votes, trained, triples, result, xvars>>

NoMsg == [event |-> "none"]
\* a handler run: the message, the times it was acked, whether the try block
\* threw, whether the handler itself rejected, and whether every call made
\* by the failure handler was accepted by its backend
NoRun == [msg |-> NoMsg, acks |-> -1, threw |-> FALSE, escaped |-> FALSE,
          envOk |-> TRUE]
Run(msg, acks, threw, escaped, envOk) ==
    [msg |-> msg, acks |-> acks, threw |-> threw, escaped |-> escaped,
     envOk |-> envOk]

NoResult == [status |-> "none", items |-> << >>, owner |-> Null, topK |-> 0,
             useFeedback |-> FALSE, fault |-> "none"]

NoMeta == [status |-> "none", message |-> "none", tag |-> "none"]

EmptyStore == [c \in CollNames |-> [exists |-> FALSE, indexes |-> 0, points |-> {}]]

NoRequest == [state |-> "none", retry |-> 0, retryCount |-> 0,
              error |-> [status |-> 0, code |-> "none"], sends |-> << >>]
NoEncoded == [status |-> "none", embeddings |-> << >>]

\* the embedding client before any call
InitEncoder ==
    /\ texts = << >>
    /\ batches = << >>
    /\ request = NoRequest
    /\ embeddingsMap = << >>
    /\ posts = << >>
    /\ encoded = NoEncoded

NoChunks == [returned |-> FALSE, chunks |-> << >>]

NoModel == [weights |-> << >>, bias |-> << >>]
NoAdapter == [cached |-> FALSE, inputDim |-> 0, trainingCount |-> 0,
              model |-> NoModel]
NoFile == [exists |-> FALSE, weights |-> << >>, bias |-> << >>, inputDim |-> 0,
           outputDim |-> 0, trainingCount |-> 0]
NoCall == [op |-> "none", error |-> "none", input |-> << >>, target |-> << >>,
           output |-> << >>]

\* a number as the fraction num / den
Frac(num, den) == [num |-> num, den |-> den]
NoEval == [scored |-> FALSE, expectedChunkIds |-> << >>,
           retrievedChunkIds |-> << >>, isHit |-> FALSE,
           recall |-> Frac(0, 1), reciprocalRank |-> Frac(0, 1)]

\* the adapter service of a fresh process, nothing stored
InitAdapter ==
    /\ adapters = NoAdapter
    /\ adapterFile = NoFile
    /\ completed = 0
    /\ calls = 0
    /\ lastCall = NoCall

\* no content handed to the semantic chunker
InitChunkerIdle ==
    /\ chunker = [minChunkSize |-> 50, maxChunkSize |-> 2000]
    /\ sentences = << >>
    /\ breakpoints = {}
    /\ chunkTexts = NoChunks

\* the services, whatever the chunker is handed
InitServices ==
    /\ InitEncoder
    /\ ragQ = << >>
    /\ persistQ = [q \in PersistQueues |-> << >>]
    /\ dlq = EmptyBag
    /\ resource = [r \in Resources |->
                     [content |-> NoContent, isDeleted |-> FALSE,
                      metadata |-> [NoMeta EXCEPT !.tag = "user"]]]
    /\ mongo = {}
    /\ last = [q \in ConsumerQueues |-> NoRun]
    /\ blocked = [q \in ConsumerQueues |-> FALSE]
    /\ processed = [r \in Resources |-> << >>]
    /\ uuid = 0
    /\ purged = [q \in PersistQueues |-> [r \in Resources |-> FALSE]]
    /\ fbQ = << >>
    /\ feedbackDocs = {}
    /\ votes = << >>
    /\ trained = 0
    /\ triples = {}
    /\ result = NoResult
    /\ settings \in [sparse : BOOLEAN, rerank : BOOLEAN]

MaxGetters == 2
Getters == 1..MaxGetters

\* a Collection document, by the name it carries
CollectionNamed(name) == [name |-> name]
Gone == [name |-> "gone"]
Miss == <<"miss">>
IdleGet == [pc |-> "idle", held |-> Gone, afterWrite |-> FALSE, returned |-> Miss]
IdleWrite == [pc |-> "idle", op |-> "none"]

\* the collection service of a process nobody calls
InitCollectionIdle ==
    /\ collectionDoc = CollectionNamed("old")
    /\ redisCache = Miss
    /\ getting = [g \in Getters |-> IdleGet]
    /\ writing = IdleWrite

MaxAdapterCallers == 3
AdapterCallers == 1..MaxAdapterCallers
MaxClears == 1
IdleCall == [pc |-> "idle", adapter |-> 0, returned |-> 0, epoch |-> 0]

\* `new AdapterService()`: an empty Map
InitAdapterService ==
    /\ instanceCache = 0
    /\ instancesMade = 0
    /\ cleared = 0
    /\ getAdapterCall = [g \in AdapterCallers |-> IdleCall]

IdleInsert == [pc |-> "idle", outcome |-> "none"]

InitInsertIdle ==
    /\ inserting = [q \in QdrantQueues |-> IdleInsert]

InitLater ==
    /\ InitCollectionIdle
    /\ InitAdapterService
    /\ InitInsertIdle

InitCommon ==
    /\ InitServices
    /\ InitChunkerIdle
    /\ InitAdapter
    /\ evalResult = NoEval
    /\ InitLater

InitPipeline ==
    /\ InitCommon
    /\ qdrant = EmptyStore
    /\ keepDuplicateSetting = FALSE

\* number of rejected calls among the outcomes of a handler run
Cost(oks) == Cardinality({i \in 1..Len(oks) : ~oks[i]})

-----------------------------------------------------------------------------
(* Message broker *)

\* producer.publishToQueue(name, content): one more copy in that queue
publishToQueue(bag, name, content) ==
    bag (+) SetToBag({[queue |-> name, content |-> content]})

\* QUEUE_NAME + "_FAILED" (rag.ts) and `${QUEUE}-failed` (the other consumers)
FailedQueue(q) ==
    IF q = RAG_QUEUE THEN <<q, "_FAILED">> ELSE <<q, "-failed">>

\* producer.publish("chunk_exchange", msg): fan-out to the bound queues
publishExchange(queues, msgs) ==
    [q \in PersistQueues |-> queues[q] \o msgs]

-----------------------------------------------------------------------------
(* Resource service *)

\* ResourceService.updateMetadata: $set of the whole metadata map
updateMetadata(res, id, metadata) ==
    [res EXCEPT ![id].metadata =
        [status |-> metadata.status, message |-> metadata.message, tag |-> "none"]]

\* ResourceService.updateResource(id, {content})
updateResource(res, id, content) ==
    [res EXCEPT ![id].content = content]

-----------------------------------------------------------------------------
(* Document processor *)

\* Doc.chunk: one Chunk per split, each with a fresh uuid
DocChunk(rid, content, base) ==
    LET splits == SplitText(content) IN
    [i \in 1..Len(splits) |->
        [id |-> base + i, data |-> splits[i], vs |-> << >>, rid |-> rid,
         cid |-> CollectionId, owner |-> OwnerOf(rid)]]

SaveMsg(rid, chunks) ==
    [action |-> "save", cid |-> CollectionId, rid |-> rid, chunks |-> chunks]

\* Doc.store: one message per chunk with a reranker, else one for all
DocStore(rid, chunks, rerank) ==
    IF rerank THEN [i \in 1..Len(chunks) |-> SaveMsg(rid, <<chunks[i]>>)]
    ELSE <<SaveMsg(rid, chunks)>>

\* Doc.delete
DeleteMsg(rid) ==
    [action |-> "delete", cid |-> CollectionId, rid |-> rid, chunks |-> << >>]

-----------------------------------------------------------------------------
(* Emitters of ingest events (resource API, sync job) *)

IngestEvent(event, rid, content) ==
    [event |-> event, rid |-> rid, content |-> content]

\* a resource is created or refreshed: a load event is published
EmitLoad(r) ==
    /\ budget.loads > 0
    /\ ~resource[r].isDeleted
    /\ ragQ' = Append(ragQ, IngestEvent("load", r, NoContent))
    /\ budget' = [budget EXCEPT !.loads = @ - 1]
    /\ UNCHANGED <<persistQ, dlq, resource, mongo, qdrant, last, blocked,
                   processed, uuid, purged, settings>>
    /\ UNCHANGED <<fvars, xvars>>

\* DELETE /resource/:id: soft delete, and a delete event is published
EmitDelete(r) ==
    /\ ~resource[r].isDeleted
    /\ resource' = [resource EXCEPT ![r].isDeleted = TRUE]
    /\ ragQ' = Append(ragQ, IngestEvent("delete", r, NoContent))
    /\ UNCHANGED <<persistQ, dlq, mongo, qdrant, last, blocked, processed,
                   uuid, purged, settings, budget>>
    /\ UNCHANGED <<fvars, xvars>>

\* the same, by a client that waits until no event of the resource is pending
EmitDeleteIdle(r) ==
    /\ \A i \in 1..Len(ragQ) : ragQ[i].rid # r
    /\ EmitDelete(r)

\* an update event, or an event that fails JSON.parse / EventSchema.parse
EmitOther(r, event) ==
    /\ budget.other > 0
    /\ ragQ' = Append(ragQ, IngestEvent(event, r, NoContent))
    /\ budget' = [budget EXCEPT !.other = @ - 1]
    /\ UNCHANGED <<persistQ, dlq, resource, mongo, qdrant, last, blocked,
                   processed, uuid, purged, settings>>
    /\ UNCHANGED <<fvars, xvars>>

-----------------------------------------------------------------------------
(* Ingestion consumer *)

\* the status the switch of processMsg assigns to pipelineStatus
pipelineStatus(m, oldContent, fetched) ==
    CASE m.event = "load" -> IF oldContent = fetched THEN "chunked" ELSE "loaded"
      [] m.event = "chunk" -> "chunked"
      [] m.event = "delete" -> "deleted"
      [] OTHER -> "none"

\* the messages the switch of processMsg hands to chunk_exchange
persistMsgs(m, base, rerank) ==
    CASE m.event = "chunk" -> DocStore(m.rid, DocChunk(m.rid, m.content, base), rerank)
      [] m.event = "delete" -> <<DeleteMsg(m.rid)>>
      [] OTHER -> << >>

\* the resourceId the catch block knows: '' until the event has been parsed
knownResourceId(m) == IF m.event = "bad" THEN "" ELSE m.rid

\* processMsg, for the message at the head of the rag queue.
\*   fail    : an awaited call of the try block rejects
\*   npub    : persist messages published before that call
\*   fetched : what the document loader returns for the url
\*   metaOk  : the document store accepts updateMetadata
\*   dlqOk   : the broker accepts the publish to the failed queue
processMsg ==
    /\ ragQ # << >>
    /\ ~blocked[RAG_QUEUE]
    /\ \E fail \in BOOLEAN, metaOk \in BOOLEAN, dlqOk \in BOOLEAN,
          fetched \in Contents,
          npub \in 0..Len(persistMsgs(Head(ragQ), uuid, settings.rerank)) :
        LET m == Head(ragQ)
            msgs == persistMsgs(m, uuid, settings.rerank)
            noChunks == m.event = "chunk" /\ Len(SplitText(m.content)) = 0
            throws == m.event = "bad" \/ fail \/ noChunks
            sent == IF ~throws THEN msgs
                    ELSE IF m.event = "bad" \/ noChunks THEN << >>
                    ELSE SubSeq(msgs, 1, npub)
            status == pipelineStatus(m, resource[m.rid].content, fetched)
            loaded == ~throws /\ status = "loaded"
            res1 == IF loaded THEN updateResource(resource, m.rid, fetched)
                    ELSE resource
            rid == knownResourceId(m)
            res2 == IF ~throws /\ status # "none" /\ metaOk
                      THEN updateMetadata(res1, m.rid,
                                          [status |-> status, message |-> "none"])
                    ELSE IF throws /\ rid # "" /\ metaOk
                      THEN updateMetadata(res1, rid,
                                          [status |-> "error", message |-> "err"])
                    ELSE res1
            followUp == IF loaded
                          THEN <<IngestEvent("chunk", m.rid, fetched)>>
                        ELSE << >>
        IN
        /\ (fail => m.event \in {"load", "chunk", "delete"})
        /\ npub < Len(msgs) \/ npub = 0
        /\ (npub > 0 => fail)
        /\ (~throws => dlqOk)
        /\ (~throws /\ status = "none" => metaOk)
        /\ (throws /\ rid = "" => metaOk)
        /\ Cost(<<~fail, metaOk, dlqOk>>) <= budget.faults
        /\ budget' = [budget EXCEPT !.faults = @ - Cost(<<~fail, metaOk, dlqOk>>)]
        /\ persistQ' = publishExchange(persistQ, sent)
        /\ uuid' = IF m.event = "chunk" /\ sent # << >>
                     THEN uuid + Len(SplitText(m.content)) ELSE uuid
        /\ resource' = res2
        /\ dlq' = IF throws /\ dlqOk
                    THEN publishToQueue(dlq, FailedQueue(RAG_QUEUE), m)
                    ELSE dlq
        /\ last' = [last EXCEPT ![RAG_QUEUE] =
                        Run(m, 1, throws, FALSE, metaOk /\ dlqOk)]
        /\ processed' = IF rid = "" THEN processed
                          ELSE [processed EXCEPT ![rid] = Append(@, m.event)]
        /\ ragQ' = Tail(ragQ) \o followUp
        /\ purged' = IF m.event = "chunk"
                       THEN [q \in PersistQueues |-> [purged[q] EXCEPT ![m.rid] = FALSE]]
                     ELSE purged
        /\ UNCHANGED <<mongo, qdrant, blocked, settings>>
        /\ UNCHANGED <<fvars, xvars>>

-----------------------------------------------------------------------------
(* Vector store (service/qdrant.ts) *)

\* qdrantClient.upsert: each point of the batch, in order, replaces the point
\* that has its id
RECURSIVE upsert(_, _)
upsert(points, new) ==
    IF new = << >> THEN points
    ELSE upsert({p \in points : p.id # Head(new).id} \cup {Head(new)}, Tail(new))

\* whether insert rejects, when `fail` names the call that the store rejects
\* ("create" and "index" are only called for a collection that does not exist)
insertThrows(store, name, points, fail) ==
    \/ fail = "upsert"
    \/ ~store[name].exists /\ fail \in {"create", "index"}
    \/ \E i \in 1..Len(points) : points[i].id = Undefined

\* insert(collectionName, points): create-on-upsert, payload index, upsert
insert(store, name, points, fail) ==
    LET c == store[name]
        created == IF ~c.exists /\ fail # "create"
                     THEN [c EXCEPT !.exists = TRUE] ELSE c
        indexed == IF ~c.exists /\ fail \notin {"create", "index"}
                     THEN [created EXCEPT !.indexes = @ + 1] ELSE created
        stored == IF insertThrows(store, name, points, fail) THEN indexed
                  ELSE [indexed EXCEPT !.points = upsert(@, points)]
    IN [store EXCEPT ![name] = stored]

\* deletePoints(collectionName, {resourceId == rid})
deletePoints(store, name, rid) ==
    [store EXCEPT ![name].points = {p \in @ : p.rid # rid}]

\* cosine similarity of the dense embeddings of two texts, in 1/10000
Cosine(a, b) ==
    LET pair == {a, b} IN
    CASE a = b -> 10000
      [] pair = {<<"p">>, <<"q">>} -> 9500
      [] pair = {<<"p">>, <<"r">>} -> 8700
      [] pair = {<<"q">>, <<"r">>} -> 8000
      [] pair = {<<"p">>, <<"x">>} -> 7000
      [] pair = {<<"p">>, <<"y">>} -> 6000
      [] pair = {<<"q">>, <<"x">>} -> 6500
      [] pair = {<<"q">>, <<"y">>} -> 7500
      [] pair = {<<"r">>, <<"x">>} -> 5000
      [] pair = {<<"r">>, <<"y">>} -> 5500
      [] OTHER -> 1000

\* similarity of the sparse embeddings of two texts, in 1/10000
SparseSim(a, b) ==
    LET pair == {a, b} IN
    CASE a = b -> 10000
      [] pair = {<<"p">>, <<"y">>} -> 4000
      [] pair = {<<"q">>, <<"x">>} -> 4500
      [] pair = {<<"r">>, <<"y">>} -> 3000
      [] OTHER -> 2000

\* max_sim of the late-interaction matrices of two texts, in 1/10000
MaxSim(a, b) ==
    LET pair == {a, b} IN
    CASE a = b -> 10000
      [] pair = {<<"p">>, <<"y">>} -> 9000
      [] pair = {<<"q">>, <<"x">>} -> 9000
      [] OTHER -> 3000

\* the elements of S by non-increasing score
SortDesc(S, score) ==
    CHOOSE seq \in [1..Cardinality(S) -> S] :
        \A i, j \in 1..Cardinality(S) :
            i < j => seq[i] # seq[j] /\ score[seq[i]] >= score[seq[j]]

Take(seq, n) == SubSeq(seq, 1, IF n < Len(seq) THEN n ELSE Len(seq))

Hit(p, score) == [id |-> p.id, score |-> score, owner |-> p.owner, rid |-> p.rid]

Matching(store, name, ownerId) ==
    {p \in store[name].points : p.owner = ownerId}

\* denseSearch / search: the nearest `limit` points that pass the filter
denseSearch(store, name, vec, limit, ownerId) ==
    LET cand == Matching(store, name, ownerId)
        score == [p \in cand |-> Cosine(vec, p.vec)]
        top == Take(SortDesc(cand, score), limit)
    IN [i \in 1..Len(top) |-> Hit(top[i], score[top[i]])]

\* 1-based position of p in list, 0 when absent
Rank(list, p) ==
    IF \E i \in 1..Len(list) : list[i] = p
      THEN CHOOSE i \in 1..Len(list) : list[i] = p
    ELSE 0

\* Reciprocal Rank Fusion of two ranked lists, score in 1/10000
RRF(denseList, sparseList) ==
    LET fused == SeqToSet(denseList) \cup SeqToSet(sparseList)
        part(list, p) == IF Rank(list, p) = 0 THEN 0
                         ELSE 10000 \div (RRF_K + Rank(list, p))
    IN [p \in fused |-> part(denseList, p) + part(sparseList, p)]

\* hybridSearch: prefetch 2 x limit on dense and on sparse, fuse, cut to limit.
\* Only one of the two definitions of service/qdrant.ts hands the filter to
\* the prefetches.
hybridSearch(store, name, vec, limit, ownerId, filtered) ==
    LET cand == IF filtered THEN Matching(store, name, ownerId)
                ELSE store[name].points
        denseList == Take(SortDesc(cand, [p \in cand |-> Cosine(vec, p.vec)]),
                          2 * limit)
        sparseList == Take(SortDesc(cand, [p \in cand |-> SparseSim(vec, p.vec)]),
                           2 * limit)
        score == RRF(denseList, sparseList)
        top == Take(SortDesc(DOMAIN score, score), limit)
    IN [i \in 1..Len(top) |-> Hit(top[i], score[top[i]])]

\* rerank: the candidates by max_sim against the query matrix, cut to limit
rerank(store, name, vec, candidateIds, limit) ==
    LET cand == {p \in store[name].points : p.id \in candidateIds}
        score == [p \in cand |-> MaxSim(vec, p.vec)]
        top == Take(SortDesc(cand, score), limit)
    IN [i \in 1..Len(top) |-> Hit(top[i], score[top[i]])]

-----------------------------------------------------------------------------
(* Storage backends (service/document.ts) *)

\* ChunkPoint, had save kept the uuid of the chunk as the point id
ChunkPointByUuid(chunk, keepDuplicate) ==
    [id |-> chunk.id,
     vec |-> IF chunk.vs # << >> THEN chunk.vs ELSE chunk.data,
     rid |-> chunk.rid, cid |-> chunk.cid, owner |-> chunk.owner,
     content |-> chunk.data]

\* QdrantStorage.save maps a chunk to a point
ChunkPoint(chunk, keepDuplicate) ==
    [id |-> IF keepDuplicate THEN chunk.id
            ELSE generateContentId(chunk.data \o chunk.vs, chunk.cid, chunk.owner),
     vec |-> IF chunk.vs # << >> THEN chunk.vs ELSE chunk.data,
     rid |-> chunk.rid, cid |-> chunk.cid, owner |-> chunk.owner,
     content |-> chunk.data]

\* QdrantStorage.save(chunks, keepDuplicate = false)
QdrantSave(store, chunks, keepDuplicate, fail) ==
    insert(store, ChunkColl,
           [i \in 1..Len(chunks) |-> ChunkPoint(chunks[i], keepDuplicate)], fail)

QdrantSaveThrows(store, chunks, keepDuplicate, fail) ==
    insertThrows(store, ChunkColl,
           [i \in 1..Len(chunks) |-> ChunkPoint(chunks[i], keepDuplicate)], fail)

\* MongoStorage.save: createChunk for each chunk of `saved`, the others reject
MongoSave(docs, chunks, saved) ==
    docs \cup {[id |-> chunks[i].id, rid |-> chunks[i].rid,
                data |-> chunks[i].data] :
                i \in {j \in saved : \A d \in docs : d.id # chunks[j].id}}

MongoSaveThrows(docs, chunks, saved) ==
    \/ saved # 1..Len(chunks)
    \/ \E i \in 1..Len(chunks) : \E d \in docs : d.id = chunks[i].id

\* MongoStorage.delete -> ChunkService.deleteChunksByResource
deleteChunksByResource(docs, rid) ==
    {d \in docs : d.rid # rid}

-----------------------------------------------------------------------------
(* Persist consumers (consumer/storage.ts) *)

\* what a persist handler leaves behind: ack after the try block, or after
\* the awaited publish to the failed queue; no ack when that publish rejects
persistDone(q, m, throws, dlqOk) ==
    /\ persistQ' = [persistQ EXCEPT ![q] = Tail(@)]
    /\ dlq' = IF throws /\ dlqOk THEN publishToQueue(dlq, FailedQueue(q), m)
              ELSE dlq
    /\ last' = [last EXCEPT ![q] =
                   Run(m, IF throws /\ ~dlqOk THEN 0 ELSE 1, throws,
                       throws /\ ~dlqOk, dlqOk)]
    /\ blocked' = [blocked EXCEPT ![q] = throws /\ ~dlqOk]
    /\ purged' = IF m.action = "delete" /\ ~throws
                   THEN [purged EXCEPT ![q][m.rid] = TRUE]
                 ELSE purged

mongoStore ==
    /\ persistQ[MONGO_QUEUE] # << >>
    /\ ~blocked[MONGO_QUEUE]
    /\ LET m == Head(persistQ[MONGO_QUEUE]) IN
       \E saved \in SUBSET (1..Len(m.chunks)), ok \in BOOLEAN, dlqOk \in BOOLEAN :
          LET throws == IF m.action = "save"
                          THEN MongoSaveThrows(mongo, m.chunks, saved)
                        ELSE ~ok
          IN
          /\ (m.action = "save" => ok)
          /\ (m.action = "delete" => saved = {})
          /\ (~throws => dlqOk)
          /\ Cost(<<~throws, dlqOk>>) <= budget.faults
          /\ budget' = [budget EXCEPT !.faults = @ - Cost(<<~throws, dlqOk>>)]
          /\ mongo' = IF m.action = "save" THEN MongoSave(mongo, m.chunks, saved)
                      ELSE IF ok THEN deleteChunksByResource(mongo, m.rid)
                      ELSE mongo
          /\ persistDone(MONGO_QUEUE, m, throws, dlqOk)
          /\ UNCHANGED <<ragQ, resource, qdrant, processed, uuid, settings>>
          /\ UNCHANGED <<fvars, xvars>>

\* qdrantUSAStore and qdrantIndiaStore: the same handler on the same client
qdrantStore(q) ==
    /\ persistQ[q] # << >>
    /\ ~blocked[q]
    /\ LET m == Head(persistQ[q]) IN
       \E fail \in {"none", "create", "index", "upsert", "delete"}, dlqOk \in BOOLEAN :
          LET throws == IF m.action = "save"
                          THEN QdrantSaveThrows(qdrant, m.chunks, FALSE, fail)
                        ELSE fail = "delete" \/ ~qdrant[ChunkColl].exists
          IN
          /\ (m.action = "save" => fail # "delete")
          /\ (m.action = "delete" => fail \in {"none", "delete"})
          /\ (fail \in {"create", "index"} => ~qdrant[ChunkColl].exists)
          /\ (~throws => dlqOk)
          /\ Cost(<<~throws, dlqOk>>) <= budget.faults
          /\ budget' = [budget EXCEPT !.faults = @ - Cost(<<~throws, dlqOk>>)]
          /\ qdrant' = IF m.action = "save"
                         THEN QdrantSave(qdrant, m.chunks, FALSE, fail)
                       ELSE IF throws THEN qdrant
                       ELSE deletePoints(qdrant, ChunkColl, m.rid)
          /\ persistDone(q, m, throws, dlqOk)
          /\ UNCHANGED <<ragQ, resource, mongo, processed, uuid, settings>>
          /\ UNCHANGED <<fvars, xvars>>

qdrantUSAStore == qdrantStore(QDRANT_USA_QUEUE)

qdrantIndiaStore == qdrantStore(QDRANT_INDIA_QUEUE)

-----------------------------------------------------------------------------
(* Feedback service (service/feedback.ts) *)

\* FeedbackService.getFeedback: findById
getFeedback(docs, id) == {d \in docs : d.id = id}

\* FeedbackService.createFeedback: save of a new record; a second record
\* with the same _id is rejected
createFeedbackThrows(docs, id) == \E d \in docs : d.id = id

createFeedback(docs, id, query, ownerId) ==
    docs \cup {[id |-> id, query |-> query, owner |-> ownerId, hits |-> << >>]}

\* addFeedback, had it assigned the delta to an existing row
addFeedbackAssign(docs, id, chunkId, resourceId, action) ==
    LET delta == IF action = "upvote" THEN 1 ELSE -1
        add(hits) == IF chunkId \in DOMAIN hits
                       THEN [hits EXCEPT ![chunkId].count = delta]
                     ELSE hits @@ (chunkId :> [rid |-> resourceId, count |-> delta])
    IN {IF d.id = id THEN [d EXCEPT !.hits = add(@)] ELSE d : d \in docs}

\* FeedbackService.addFeedback, for a record that exists
addFeedback(docs, id, chunkId, resourceId, action) ==
    LET delta == IF action = "upvote" THEN 1 ELSE -1
        add(hits) == IF chunkId \in DOMAIN hits
                       THEN [hits EXCEPT ![chunkId].count = @ + delta]
                     ELSE hits @@ (chunkId :> [rid |-> resourceId, count |-> delta])
    IN {IF d.id = id THEN [d EXCEPT !.hits = add(@)] ELSE d : d \in docs}

-----------------------------------------------------------------------------
(* Feedback route and consumer *)

\* the chunks that were ingested before the feedback loop is observed
SeedChunks ==
    << [id |-> 1, data |-> <<"x">>, vs |-> << >>, rid |-> "r1",
        cid |-> CollectionId, owner |-> <<"a">>],
       [id |-> 2, data |-> <<"y">>, vs |-> << >>, rid |-> "r1",
        cid |-> CollectionId, owner |-> <<"a">>],
       [id |-> 3, data |-> <<"x">>, vs |-> << >>, rid |-> "r2",
        cid |-> CollectionId, owner |-> <<"b">>] >>

VoteActions == {"upvote", "downvote"}

\* POST /feedback/vote by the owner of chunk i of the collection, who had it
\* returned for `query`
voteHandler(query, i, action) ==
    /\ budget.votes > 0
    /\ Len(fbQ) < MaxPending
    /\ LET chunk == SeedChunks[i] IN
       fbQ' = Append(fbQ, [query |-> query,
                           chunkId |-> ChunkPoint(chunk, FALSE).id,
                           rid |-> chunk.rid, action |-> action,
                           owner |-> chunk.owner])
    /\ budget' = [budget EXCEPT !.votes = @ - 1]
    /\ UNCHANGED <<dlq, qdrant, last, blocked, settings, build, feedbackDocs,
                   votes, trained, triples, result>>
    /\ UNCHANGED <<ivars, xvars>>

\* the votes recorded for a FeedbackDoc and chunk, after one more
Tally(tally, key, action) ==
    LET old == IF key \in DOMAIN tally THEN tally[key] ELSE [up |-> 0, down |-> 0]
        new == IF action = "upvote" THEN [old EXCEPT !.up = @ + 1]
               ELSE [old EXCEPT !.down = @ + 1]
    IN [k \in DOMAIN tally \cup {key} |-> IF k = key THEN new ELSE tally[k]]

FeedbackFaults ==
    {"none", "collection", "embed", "search", "getFeedback", "insert",
     "create", "add", "retrieve", "train"}

\* processFeedback, for the message at the head of the search-feedback queue.
\*   fail  : the awaited call that rejects
\*   dlqOk : the broker accepts the publish to the failed queue
processFeedback ==
    /\ fbQ # << >>
    /\ ~blocked[FEEDBACK_QUEUE]
    /\ \E hits \in {IF settings.sparse
                      THEN hybridSearch(qdrant, FeedbackColl, Head(fbQ).query, 1,
                                        Head(fbQ).owner, build = "filtered")
                    ELSE denseSearch(qdrant, FeedbackColl, Head(fbQ).query, 1,
                                     Head(fbQ).owner)},
          fail \in FeedbackFaults, dlqOk \in BOOLEAN :
        LET m == Head(fbQ)
            early == fail \in {"collection", "embed"}
            found == IF fail = "search" \/ ~qdrant[FeedbackColl].exists THEN << >>
                     ELSE hits
            nearest == IF Len(found) > 0 /\ found[1].score > MERGE_THRESHOLD
                         THEN found[1].id ELSE Null
            feedback == IF fail = "getFeedback" THEN {}
                        ELSE getFeedback(feedbackDocs, nearest)
            isNew == feedback = {}
            feedbackId == IF isNew
                            THEN generateContentId(m.query, CollectionId, m.owner)
                          ELSE nearest
            point == [id |-> feedbackId, vec |-> m.query, rid |-> "none",
                      cid |-> CollectionId, owner |-> m.owner, content |-> << >>]
            mode == IF fail = "insert" THEN "upsert" ELSE "none"
            inserts == ~early /\ isNew
            insertFails == inserts /\ insertThrows(qdrant, FeedbackColl, <<point>>, mode)
            creates == inserts /\ ~insertFails
            createFails == creates /\ (fail = "create"
                                       \/ createFeedbackThrows(feedbackDocs, feedbackId))
            docs1 == IF creates /\ ~createFails
                       THEN createFeedback(feedbackDocs, feedbackId, m.query, m.owner)
                     ELSE feedbackDocs
            adds == ~early /\ ~insertFails /\ ~createFails
            addFails == adds /\ (fail = "add" \/ getFeedback(docs1, feedbackId) = {})
            recorded == adds /\ ~addFails
            throws == early \/ insertFails \/ createFails \/ addFails
            trains == /\ recorded
                      /\ m.action = "upvote"
                      /\ fail \notin {"retrieve", "train"}
                      /\ \E p \in qdrant[ChunkColl].points : p.id = m.chunkId
        IN
        /\ (fail = "getFeedback" => ~early /\ nearest # Null)
        /\ (fail = "insert" => inserts)
        /\ (fail = "create" => creates)
        /\ (fail = "add" => adds)
        /\ (fail \in {"retrieve", "train"} => recorded /\ m.action = "upvote")
        /\ (~throws => dlqOk)
        /\ Cost(<<fail = "none", dlqOk>>) <= budget.faults
        /\ budget' = [budget EXCEPT !.faults = @ - Cost(<<fail = "none", dlqOk>>)]
        /\ qdrant' = IF inserts THEN insert(qdrant, FeedbackColl, <<point>>, mode)
                     ELSE qdrant
        /\ feedbackDocs' = IF recorded
                             THEN addFeedback(docs1, feedbackId, m.chunkId, m.rid, m.action)
                           ELSE docs1
        /\ votes' = IF recorded THEN Tally(votes, <<feedbackId, m.chunkId>>, m.action)
                    ELSE votes
        /\ trained' = IF trains THEN trained + 1 ELSE trained
        /\ fbQ' = Tail(fbQ)
        /\ dlq' = IF throws /\ dlqOk
                    THEN publishToQueue(dlq, FailedQueue(FEEDBACK_QUEUE), m)
                  ELSE dlq
        /\ last' = [last EXCEPT ![FEEDBACK_QUEUE] =
                       Run(m, IF throws /\ ~dlqOk THEN 0 ELSE 1, throws,
                           throws /\ ~dlqOk, dlqOk)]
        /\ blocked' = [blocked EXCEPT ![FEEDBACK_QUEUE] = throws /\ ~dlqOk]
        /\ UNCHANGED <<settings, build, triples, result>>
        /\ UNCHANGED <<ivars, xvars>>

-----------------------------------------------------------------------------
(* Query engine (service/search.ts) *)

\* Math.log(count) in 1/10000, for the counts the bounds allow
Ln(n) ==
    CASE n = 1 -> 0
      [] n = 2 -> 6931
      [] n = 3 -> 10986
      [] n = 4 -> 13863
      [] OTHER -> 16094

\* -Infinity
NegInf == -1000000000

\* (Math.log(value.count) * score) + result.score || 0
\* Math.log is -Infinity at 0 and NaN below; NaN || 0 is 0
FuseScore(count, sim, score) ==
    IF count < 0 THEN 0
    ELSE IF count = 0 \/ score = NegInf THEN NegInf
    ELSE (Ln(count) * sim) \div 10000 + score

\* the inner loop of the fusion: the hits of one FeedbackDoc
FuseHits(results, hits, sim) ==
    [i \in 1..Len(results) |->
        IF results[i].id \in DOMAIN hits
          THEN [results[i] EXCEPT !.score = FuseScore(hits[results[i].id].count, sim, @)]
        ELSE results[i]]

\* the outer loop of the fusion: the similar queries, in order
RECURSIVE FuseFeedback(_, _, _)
FuseFeedback(results, similar, docs) ==
    IF similar = << >> THEN results
    ELSE LET found == getFeedback(docs, Head(similar).id)
             fused == IF found = {} THEN results
                      ELSE FuseHits(results, (CHOOSE d \in found : TRUE).hits,
                                    Head(similar).score)
         IN FuseFeedback(fused, Tail(similar), docs)

\* Array.prototype.sort((a, b) => b.score - a.score): stable
SortByScore(results) ==
    LET n == Len(results)
        before(j, i) == \/ results[j].score > results[i].score
                        \/ results[j].score = results[i].score /\ j < i
        pos(i) == 1 + Cardinality({j \in 1..n : before(j, i)})
    IN [k \in 1..n |-> results[CHOOSE i \in 1..n : pos(i) = k]]

SearchFaults ==
    {"none", "collection", "embed", "search", "rerank", "fbSearch", "getFeedback"}

\* search(query, collectionId, options)
\*   owner : options.ownerId, Null when the caller gives none
\*   topK  : options.topK, 0 when the caller gives none
\*   fail  : the awaited call that rejects
search ==
    /\ budget.searches > 0
    /\ \E query \in Queries, owner \in Owners \cup {Null}, topK \in TopKs,
          useFeedback \in BOOLEAN, fail \in SearchFaults :
        LET ownerId == IF owner = Null THEN Public ELSE owner
            limit == IF topK = 0 THEN DEFAULT_TOPK ELSE topK
            early == fail \in {"collection", "embed", "search"}
                     \/ ~qdrant[ChunkColl].exists
            searchResult ==
                IF settings.sparse
                  THEN hybridSearch(qdrant, ChunkColl, query, CANDIDATES, ownerId,
                                    build = "filtered")
                ELSE denseSearch(qdrant, ChunkColl, query, CANDIDATES, ownerId)
            reranks == ~early /\ settings.rerank /\ Len(searchResult) > 0
            ranked == IF reranks
                        THEN rerank(qdrant, ChunkColl, query,
                                    {searchResult[i].id : i \in 1..Len(searchResult)},
                                    limit)
                      ELSE searchResult
            fuses == ~early /\ ~(reranks /\ fail = "rerank") /\ useFeedback
            Close(fb) == fb.score > FUSE_THRESHOLD
            similar == IF fail = "fbSearch" \/ ~qdrant[FeedbackColl].exists THEN << >>
                       ELSE SelectSeq(denseSearch(qdrant, FeedbackColl, query,
                                                  FEEDBACK_LIMIT, ownerId), Close)
            throws == \/ early
                      \/ reranks /\ fail = "rerank"
                      \/ fuses /\ fail = "getFeedback" /\ similar # << >>
            items == IF fuses
                       THEN SortByScore(FuseFeedback(ranked, similar, feedbackDocs))
                     ELSE ranked
        IN
        /\ (fail = "rerank" => reranks)
        /\ (fail = "fbSearch" => fuses)
        /\ (fail = "getFeedback" => fuses /\ similar # << >>)
        /\ Cost(<<fail = "none">>) <= budget.faults
        /\ budget' = [budget EXCEPT !.searches = @ - 1,
                                    !.faults = @ - Cost(<<fail = "none">>)]
        /\ result' = [status |-> IF throws THEN "error" ELSE "ok",
                      items |-> IF throws THEN << >> ELSE items,
                      owner |-> ownerId, topK |-> limit,
                      useFeedback |-> useFeedback, fault |-> fail]
    /\ UNCHANGED <<dlq, qdrant, last, blocked, settings, build, fbQ,
                   feedbackDocs, votes, trained, triples>>
    /\ UNCHANGED <<ivars, xvars>>

-----------------------------------------------------------------------------
(* The ingestion worker alone: ingest events in, persist events out *)

InitIngest ==
    /\ InitPipeline
    /\ settings.sparse = FALSE
    /\ build = "filtered"
    /\ budget = [loads |-> MaxLoads, other |-> MaxOther, faults |-> MaxFaults,
                 votes |-> 0, searches |-> 0, saves |-> 0]

NextIngest ==
    \/ \E r \in Resources : EmitLoad(r)
    \/ \E r \in Resources : EmitDelete(r)
    \/ \E r \in Resources, e \in {"update", "bad"} : EmitOther(r, e)
    \/ processMsg

SpecIngest == InitIngest /\ [][NextIngest]_vars

-----------------------------------------------------------------------------
(* The ingestion worker together with the three persist workers *)

InitPipe ==
    /\ InitPipeline
    /\ settings.sparse = FALSE
    /\ build = "filtered"
    /\ budget = [loads |-> MaxPipeLoads, other |-> 0, faults |-> MaxPipeFaults,
                 votes |-> 0, searches |-> 0, saves |-> 0]

NextPipe ==
    \/ \E r \in Resources : EmitLoad(r)
    \/ \E r \in Resources : EmitDeleteIdle(r)
    \/ processMsg
    \/ mongoStore
    \/ qdrantUSAStore
    \/ qdrantIndiaStore

SpecPipe == InitPipe /\ [][NextPipe]_vars

-----------------------------------------------------------------------------
(* The vector-store backend alone, handed save events with keepDuplicate = false *)

\* chunks of save events: one text in two resources, one text split two ways
\* between data and vectorSource, one text under two owners
SavedChunks ==
    { [data |-> <<"x">>, vs |-> << >>, rid |-> "r1", owner |-> <<"a">>],
      [data |-> <<"x">>, vs |-> << >>, rid |-> "r2", owner |-> <<"a">>],
      [data |-> <<"x">>, vs |-> <<"y">>, rid |-> "r1", owner |-> <<"a">>],
      [data |-> <<"x", "y">>, vs |-> << >>, rid |-> "r1", owner |-> <<"a">>],
      [data |-> <<"x">>, vs |-> << >>, rid |-> "r1", owner |-> <<"b">>] }

\* the chunks of a save event, with the uuids Doc.chunk drew for them
Batch(shape, base) ==
    [i \in 1..Len(shape) |->
        [id |-> base + i, data |-> shape[i].data, vs |-> shape[i].vs,
         rid |-> shape[i].rid, cid |-> CollectionId, owner |-> shape[i].owner]]

BatchShapes == UNION {[1..n -> SavedChunks] : n \in 1..MaxBatch}

TripleOf(chunk) == <<chunk.cid, chunk.owner, chunk.data \o chunk.vs>>

\* a save event is processed by the vector-store backend
storageSave ==
    /\ budget.saves > 0
    /\ \E shape \in BatchShapes, fail \in {"none", "create", "index", "upsert"} :
        LET chunks == Batch(shape, uuid)
            throws == QdrantSaveThrows(qdrant, chunks, FALSE, fail)
        IN
        /\ (fail \in {"create", "index"} => ~qdrant[ChunkColl].exists)
        /\ Cost(<<fail = "none">>) <= budget.faults
        /\ budget' = [budget EXCEPT !.saves = @ - 1,
                                    !.faults = @ - Cost(<<fail = "none">>)]
        /\ qdrant' = QdrantSave(qdrant, chunks, FALSE, fail)
        /\ uuid' = uuid + Len(chunks)
        /\ triples' = IF throws THEN triples
                      ELSE triples \cup {TripleOf(chunks[i]) : i \in 1..Len(chunks)}
    /\ UNCHANGED <<ragQ, persistQ, dlq, resource, mongo, last, blocked,
                   processed, purged, settings, build, fbQ, feedbackDocs,
                   votes, trained, result, xvars>>

InitStore ==
    /\ InitPipeline
    /\ settings = [sparse |-> FALSE, rerank |-> FALSE]
    /\ build = "filtered"
    /\ budget = [loads |-> 0, other |-> 0, faults |-> MaxStoreFaults,
                 votes |-> 0, searches |-> 0, saves |-> MaxSaves]

NextStore == storageSave

SpecStore == InitStore /\ [][NextStore]_vars

-----------------------------------------------------------------------------
(* The feedback loop over an ingested collection *)

InitQuery ==
    /\ InitCommon
    /\ qdrant = QdrantSave(EmptyStore, SeedChunks, FALSE, "none")
    /\ keepDuplicateSetting = FALSE
    /\ build \in {"filtered", "unfiltered"}

InitFeedback ==
    /\ InitQuery
    /\ settings.rerank = FALSE
    /\ budget = [loads |-> 0, other |-> 0, faults |-> MaxFeedbackFaults,
                 votes |-> MaxVotes, searches |-> 0, saves |-> 0]

\* one owner votes on their two chunks, for two queries that are close
NextFeedback ==
    \/ \E query \in {<<"p">>, <<"q">>}, i \in 1..2, action \in VoteActions :
           voteHandler(query, i, action)
    \/ processFeedback

SpecFeedback == InitFeedback /\ [][NextFeedback]_vars

-----------------------------------------------------------------------------
(* The query engine next to the feedback loop *)

InitSearch ==
    /\ InitQuery
    /\ budget = [loads |-> 0, other |-> 0, faults |-> MaxSearchFaults,
                 votes |-> MaxSearchVotes, searches |-> MaxSearches, saves |-> 0]

NextSearch ==
    \/ \E query \in Queries, i \in 1..Len(SeedChunks), action \in VoteActions :
           voteHandler(query, i, action)
    \/ processFeedback
    \/ search

SpecSearch == InitSearch /\ [][NextSearch]_vars

-----------------------------------------------------------------------------
(* C1, C2, C5, C10 *)

\* C1: every message delivered to one of the five consumers is acked exactly
\* once and is not left unacked for the broker to re-queue, whatever step of
\* the handler or of its failure handler throws
C1_AckedExactlyOnce ==
    \A q \in ConsumerQueues :
        last[q].msg # NoMsg => last[q].acks = 1 /\ ~blocked[q]

\* C2: for one resource the events are processed in the order load, chunk,
\* delete: no load or chunk is processed after the resource's delete
C2_LoadChunkDelete ==
    \A r \in Resources : \A i, j \in 1..Len(processed[r]) :
        i < j /\ processed[r][i] = "delete"
            => processed[r][j] \notin {"load", "chunk"}

\* C5: whenever processing an ingest event throws (malformed events
\* included) and the backends accept the calls of the failure handler, the
\* event's resource has status error with the message and the message
\* content is in rag_FAILED
C5_FailureReported ==
    LET run == last[RAG_QUEUE] IN
    run.threw /\ run.envOk =>
        /\ resource[run.msg.rid].metadata.status = "error"
        /\ resource[run.msg.rid].metadata.message = "err"
        /\ BagIn([queue |-> <<RAG_QUEUE, "_FAILED">>, content |-> run.msg], dlq)

\* the chunks and points a persist queue's backend holds for a resource
Held(q, r) ==
    IF q = MONGO_QUEUE THEN {d \in mongo : d.rid = r}
    ELSE {p \in qdrant[ChunkColl].points : p.rid = r}

\* C10: once a backend's consumer has processed the delete of a resource, the
\* backend holds nothing of that resource until a new chunk event is processed
C10_DeleteIsFinal ==
    \A q \in PersistQueues : \A r \in Resources :
        purged[q][r] => Held(q, r) = {}

-----------------------------------------------------------------------------
(* C3, C4, C6, C7, C8, C9 *)

\* C3: with keepDuplicate = false the point id is a function of
\* (collectionId, ownerId, data + vectorSource) alone; after any sequence of
\* save events the vector store holds exactly one point per triple saved;
\* and processing a save event a second time changes nothing
C3_OnePointPerTriple ==
    /\ \A c1, c2 \in SavedChunks : \A u1, u2 \in {uuid, uuid + 1} :
          LET k1 == Batch(<<c1>>, u1)[1]
              k2 == Batch(<<c2>>, u2)[1]
          IN TripleOf(k1) = TripleOf(k2)
                => ChunkPoint(k1, FALSE).id = ChunkPoint(k2, FALSE).id
    /\ Cardinality(qdrant[ChunkColl].points) = Cardinality(triples)
    /\ \A shape \in BatchShapes :
          LET chunks == Batch(shape, uuid)
              once == QdrantSave(qdrant, chunks, FALSE, "none")
          IN QdrantSave(once, chunks, FALSE, "none") = once

\* every save was accepted, and more chunks were saved than there are triples
C3_TripleSavedAgain ==
    /\ budget.faults = MaxStoreFaults
    /\ Cardinality(triples) >= 2
    /\ uuid > Cardinality(triples)

\* C4: a search for owner A (public when none is given) returns only points
\* whose payload ownerId is A
C4_OwnerIsolation ==
    result.status = "ok" =>
        \A i \in 1..Len(result.items) : result.items[i].owner = result.owner

\* C6: a search returns at most topK results (5 when none is given)
C6_AtMostTopK ==
    result.status = "ok" => Len(result.items) <= result.topK

\* C7: when no backend call is rejected, a feedback event is recorded (it
\* does not throw, nothing is in the dead-letter queue) and there is at most
\* one FeedbackDoc and one feedback point for its (collectionId, ownerId, query)
C7_OneDocPerQuery ==
    LET run == last[FEEDBACK_QUEUE] IN
    run.msg # NoMsg /\ budget.faults = MaxFeedbackFaults =>
        /\ ~run.threw
        /\ dlq = EmptyBag
        /\ Cardinality({d \in feedbackDocs :
                           d.query = run.msg.query /\ d.owner = run.msg.owner}) <= 1
        /\ Cardinality({p \in qdrant[FeedbackColl].points :
                           p.vec = run.msg.query /\ p.owner = run.msg.owner}) <= 1

\* C8: the count of a chunkId in a FeedbackDoc is the number of upvotes minus
\* the number of downvotes recorded for it there, from the first vote on, and
\* every recorded vote has its row
C8_CountIsUpMinusDown ==
    /\ \A d \in feedbackDocs : \A c \in DOMAIN d.hits :
          /\ <<d.id, c>> \in DOMAIN votes
          /\ d.hits[c].count = votes[<<d.id, c>>].up - votes[<<d.id, c>>].down
    /\ \A k \in DOMAIN votes :
          \E d \in feedbackDocs : d.id = k[1] /\ k[2] \in DOMAIN d.hits

\* a row that has taken an upvote and a downvote
C8_RowVotedBothWays ==
    \E k \in DOMAIN votes : votes[k].up >= 1 /\ votes[k].down >= 1

\* C9: a rejected feedback vector lookup or FeedbackDoc load does not fail
\* the search
C9_FusionFailureIsSoft ==
    result.fault \in {"fbSearch", "getFeedback"} => result.status = "ok"


-----------------------------------------------------------------------------
(* Embedding client: length-sorted batches posted through the retrying axios *)

MAX_BATCH_SIZE == 50
\* MAX_WASTE_RATIO = 0.10, as the fraction WASTE_NUM / WASTE_DEN
WASTE_NUM == 1
WASTE_DEN == 10
RETRY_COUNT == 5
BACKOFF_MS == 1000

\* texts.map((text, index) => ({text, originalIndex: index, length: text.length}))
IndexedTexts(ts) ==
    [i \in 1..Len(ts) |-> [text |-> ts[i], originalIndex |-> i, length |-> Len(ts[i])]]

\* reduce((sum, i) => sum + i.length, 0) over items lo..hi, added up by halves
RECURSIVE SumBetween(_, _, _)
SumBetween(items, lo, hi) ==
    IF lo > hi THEN 0
    ELSE IF lo = hi THEN items[lo].length
    ELSE LET mid == (lo + hi) \div 2 IN
         SumBetween(items, lo, mid) + SumBetween(items, mid + 1, hi)

SumLength(items, n) == SumBetween(items, 1, n)

MaxLength(items) ==
    CHOOSE m \in {items[i].length : i \in 1..Len(items)} :
        \A i \in 1..Len(items) : items[i].length <= m

\* sort((a, b) => b.length - a.length): stable, longest first
RECURSIVE SortByLength(_)
SortByLength(items) ==
    IF items = << >> THEN << >>
    ELSE LET m == MaxLength(items)
             IsLongest(it) == it.length = m
             IsShorter(it) == it.length < m
         IN SelectSeq(items, IsLongest) \o SortByLength(SelectSeq(items, IsShorter))

\* wasteRatio > MAX_WASTE_RATIO, where 0 / 0 is NaN and NaN > x is false
WasteExceeds(wastedTokens, totalMatrixArea) ==
    /\ totalMatrixArea # 0
    /\ wastedTokens * WASTE_DEN > WASTE_NUM * totalMatrixArea

shouldStartNewBatchUncapped(currentBatch, newItem) ==
    LET batchMaxLen == currentBatch[1].length
        potentialSize == Len(currentBatch) + 1
        totalMatrixArea == batchMaxLen * potentialSize
        actualTokens == SumLength(currentBatch, Len(currentBatch)) + newItem.length
    IN WasteExceeds(totalMatrixArea - actualTokens, totalMatrixArea)

shouldStartNewBatch(currentBatch, newItem) ==
    IF Len(currentBatch) >= MAX_BATCH_SIZE THEN TRUE
    ELSE LET batchMaxLen == currentBatch[1].length
             potentialSize == Len(currentBatch) + 1
             totalMatrixArea == batchMaxLen * potentialSize
             currentSum == SumLength(currentBatch, Len(currentBatch))
             actualTokens == currentSum + newItem.length
             wastedTokens == totalMatrixArea - actualTokens
         IN WasteExceeds(wastedTokens, totalMatrixArea)

\* the loop of createOptimizedBatches, for the batch that item `from` opens:
\* the batch is closed by the first later item that shouldStartNewBatch
\* turns away, or by the end of the list
BatchEnd(sortedItems, from) ==
    LET Closes(j) ==
            \/ j = Len(sortedItems)
            \/ shouldStartNewBatch(SubSeq(sortedItems, from, j), sortedItems[j + 1])
    IN CHOOSE j \in from..Len(sortedItems) :
           Closes(j) /\ \A k \in from..(j - 1) : ~Closes(k)

RECURSIVE BatchesFrom(_, _)
BatchesFrom(sortedItems, from) ==
    IF from > Len(sortedItems) THEN << >>
    ELSE LET end == BatchEnd(sortedItems, from) IN
         <<SubSeq(sortedItems, from, end)>> \o BatchesFrom(sortedItems, end + 1)

createOptimizedBatches(sortedItems) == BatchesFrom(sortedItems, 1)

\* error.response.status, 0 when there is no response, and error.code
Errors ==
    { [status |-> 500, code |-> "ERR_BAD_RESPONSE"],
      [status |-> 503, code |-> "ERR_BAD_RESPONSE"],
      [status |-> 499, code |-> "ERR_BAD_REQUEST"],
      [status |-> 400, code |-> "ERR_BAD_REQUEST"],
      [status |-> 0, code |-> "ECONNRESET"],
      [status |-> 0, code |-> "ETIMEDOUT"] }

\* (error.response && error.response.status >= 500) || error.code === 'ECONNRESET'
shouldRetry(error) ==
    (error.status # 0 /\ error.status >= 500) \/ error.code = "ECONNRESET"

\* axios.post(url, data, {retry}): the request goes out at once
Post(retry) ==
    [state |-> "sent", retry |-> retry, retryCount |-> 0,
     error |-> [status |-> 0, code |-> "none"], sends |-> <<0>>]

retriesLeftOffByOne(req) == req.retryCount <= req.retry

\* config.__retryCount >= config.retry is false
retriesLeft(req) == req.retryCount < req.retry

\* the response interceptor's error handler, up to its await of the backoff
onRejected(req, error) ==
    IF req.retry = 0 THEN [req EXCEPT !.state = "rejected", !.error = error]
    ELSE IF ~retriesLeft(req) THEN [req EXCEPT !.state = "rejected", !.error = error]
    ELSE IF shouldRetry(error)
      THEN [req EXCEPT !.state = "backoff", !.error = error,
                       !.retryCount = @ + 1]
    ELSE [req EXCEPT !.state = "rejected", !.error = error]

\* what the embedding server answers for one text
Embed(text) == [of |-> text]

SetAllByPosition(map, batch, embeddings) ==
    [k \in DOMAIN map \cup (Len(map) + 1)..(Len(map) + Len(batch)) |->
        IF k \in DOMAIN map THEN map[k] ELSE embeddings[k - Len(map)]]

\* batch.forEach((item, i) => embeddingsMap.set(item.originalIndex, embeddings[i]))
SetAll(map, batch, embeddings) ==
    LET new == {batch[i].originalIndex : i \in 1..Len(batch)} IN
    [k \in DOMAIN map \cup new |->
        IF k \in new
          THEN embeddings[CHOOSE i \in 1..Len(batch) :
                             /\ batch[i].originalIndex = k
                             /\ \A j \in (i + 1)..Len(batch) :
                                    batch[j].originalIndex # k]
        ELSE map[k]]

\* texts.map((_, i) => embeddingsMap.get(i)!)
Collect(ts, map) ==
    [i \in 1..Len(ts) |-> IF i \in DOMAIN map THEN map[i] ELSE Undefined]

BatchTexts(batch) == [i \in 1..Len(batch) |-> batch[i].text]

\* generateEmbedding(ts, model), up to its first await
generateEmbedding(ts) ==
    /\ encoded.status = "none"
    /\ request.state = "none"
    /\ LET made == createOptimizedBatches(SortByLength(IndexedTexts(ts))) IN
       /\ texts' = ts
       /\ batches' = made
       /\ embeddingsMap' = << >>
       /\ IF made = << >>
            THEN /\ encoded' = [status |-> "ok", embeddings |-> Collect(ts, << >>)]
                 /\ UNCHANGED <<request, posts>>
          ELSE /\ request' = Post(RETRY_COUNT)
               /\ posts' = <<BatchTexts(made[1])>>
               /\ UNCHANGED encoded
    /\ UNCHANGED <<svars, keepDuplicateSetting, cvars, avars, evalResult, zvars>>

\* the server's answer to the request under way reaches the interceptor, and
\* generateEmbedding runs on to its next await
serverResponds ==
    /\ request.state = "sent"
    /\ \E outcome \in {[status |-> 200, code |-> "none"]} \cup Errors :
        LET ok == outcome.status = 200
            batch == batches[Len(posts)]
            embeddings == [i \in 1..Len(batch) |-> Embed(batch[i].text)]
            map == SetAll(embeddingsMap, batch, embeddings)
            after == onRejected(request, outcome)
        IN
        /\ Cost(<<ok>>) <= budget.faults
        /\ budget' = [budget EXCEPT !.faults = @ - Cost(<<ok>>)]
        /\ IF ok
             THEN /\ embeddingsMap' = map
                  /\ IF Len(posts) < Len(batches)
                       THEN /\ request' = Post(RETRY_COUNT)
                            /\ posts' = Append(posts, BatchTexts(batches[Len(posts) + 1]))
                            /\ UNCHANGED encoded
                     ELSE /\ request' = [request EXCEPT !.state = "resolved"]
                          /\ encoded' = [status |-> "ok",
                                         embeddings |-> Collect(texts, map)]
                          /\ UNCHANGED posts
           ELSE /\ request' = after
                /\ encoded' = IF after.state = "rejected"
                                THEN [status |-> "error", embeddings |-> << >>]
                              ELSE encoded
                /\ UNCHANGED <<embeddingsMap, posts>>
    /\ UNCHANGED <<texts, batches, keepDuplicateSetting, cvars, avars, evalResult, zvars>>
    /\ UNCHANGED <<ragQ, persistQ, dlq, resource, mongo, qdrant, last, blocked,
                   processed, uuid, purged, settings, build, fbQ,
                   feedbackDocs, votes, trained, triples, result>>

\* setTimeout(1000 * config.__retryCount) fires: axiosInstance(config)
backoffElapsed ==
    /\ request.state = "backoff"
    /\ request' = [request EXCEPT !.state = "sent",
                                  !.sends = Append(@, BACKOFF_MS * request.retryCount)]
    /\ UNCHANGED <<texts, batches, embeddingsMap, posts, encoded>>
    /\ UNCHANGED <<svars, keepDuplicateSetting, cvars, avars, evalResult, zvars>>


-----------------------------------------------------------------------------
(* The embedding client alone *)

MaxTexts == 3
MaxPattern == 2
MaxEncodeFaults == 1
MaxRetryTexts == 2
MaxRetryFaults == 12

Rep(c, n) == [i \in 1..n |-> c]
TextLens == {0, 8, 10}
Texts == {Rep(c, n) : c \in {"a", "b"}, n \in TextLens}

\* the first n texts of a pattern repeated for ever
Cycle(pattern, n) == [i \in 1..n |-> pattern[((i - 1) % Len(pattern)) + 1]]

ShortInputs(max) == UNION {[1..n -> Texts] : n \in 0..max}
\* lists long enough to fill a batch
LongInputs ==
    {Cycle(pattern, n) :
        pattern \in ShortInputs(MaxPattern) \ {<< >>},
        n \in {MAX_BATCH_SIZE, MAX_BATCH_SIZE + 1, 2 * MAX_BATCH_SIZE + 1}}

InitEncode(faults) ==
    /\ InitPipeline
    /\ settings = [sparse |-> FALSE, rerank |-> FALSE]
    /\ build = "filtered"
    /\ budget = [loads |-> 0, other |-> 0, faults |-> faults,
                 votes |-> 0, searches |-> 0, saves |-> 0]

InitBatch == InitEncode(MaxEncodeFaults)

NextBatch ==
    \/ \E ts \in ShortInputs(MaxTexts) \cup LongInputs : generateEmbedding(ts)
    \/ serverResponds
    \/ backoffElapsed

SpecBatch == InitBatch /\ [][NextBatch]_vars

InitRetry == InitEncode(MaxRetryFaults)

NextRetry ==
    \/ \E ts \in ShortInputs(MaxRetryTexts) : generateEmbedding(ts)
    \/ serverResponds
    \/ backoffElapsed

\* every request is answered, and every timer fires
SpecRetry ==
    InitRetry /\ [][NextRetry]_vars
    /\ WF_vars(serverResponds) /\ WF_vars(backoffElapsed)

-----------------------------------------------------------------------------
(* Claims about the embedding client *)

\* sum of the lengths of the texts of a batch, length by length
RECURSIVE TokensOf(_, _)
TokensOf(batch, lens) ==
    IF lens = {} THEN 0
    ELSE LET l == CHOOSE l \in lens : TRUE IN
         l * Cardinality({i \in 1..Len(batch) : Len(batch[i].text) = l})
           + TokensOf(batch, lens \ {l})
Tokens(batch) == TokensOf(batch, {Len(batch[i].text) : i \in 1..Len(batch)})

\* C11: every batch the batcher makes holds at most MAX_BATCH_SIZE items,
\* and its padding waste (maxLen * size - sum of lengths, maxLen being the
\* length of its first item) is at most a tenth of maxLen * size.
C11_BatchWithinLimits ==
    \A k \in 1..Len(batches) :
        LET batch == batches[k]
            area == Len(batch[1].text) * Len(batch)
        IN /\ Len(batch) <= 50
           /\ 10 * (area - Tokens(batch)) <= area

\* a full batch next to a batch that pads
C11_FullAndPadded ==
    /\ \E k \in 1..Len(batches) : Len(batches[k]) = 50
    /\ \E k \in 1..Len(batches) :
          Len(batches[k][1].text) * Len(batches[k]) > Tokens(batches[k])


\* how many of the batches handed to axios.post hold one such text
Posted(text) ==
    LET Holds(k) == Cardinality({i \in 1..Len(posts[k]) : posts[k][i] = text})
        RECURSIVE Upto(_)
        Upto(k) == IF k = 0 THEN 0 ELSE Holds(k) + Upto(k - 1)
    IN Upto(Len(posts))

\* C12: when a batched encode call returns, every input text has gone to
\* the model server in exactly one batch (a text given n times has gone n
\* times), and the call returns one embedding per input, the i-th being the
\* embedding of the i-th input.
C12_OneEmbeddingPerInput ==
    encoded.status = "ok" =>
        /\ \A i \in 1..Len(texts) :
              Posted(texts[i]) = Cardinality({j \in 1..Len(texts) : texts[j] = texts[i]})
        /\ \A k \in 1..Len(posts) : \A i \in 1..Len(posts[k]) :
              \E j \in 1..Len(texts) : texts[j] = posts[k][i]
        /\ Len(encoded.embeddings) = Len(texts)
        /\ \A i \in 1..Len(texts) : encoded.embeddings[i] = [of |-> texts[i]]

\* a call that returned for a list given shortest first, with a text given
\* twice, that went out in more than one batch
C12_ReorderedAndSplit ==
    /\ encoded.status = "ok"
    /\ Len(posts) > 1
    /\ Len(texts) = 3
    /\ Len(texts[1]) < Len(texts[3])
    /\ texts[1] = texts[2]


\* what the interceptor re-sends after
C13_Retryable(error) == error.status >= 500 \/ error.code = "ECONNRESET"

C13_Bounded ==
    /\ Len(request.sends) <= 6
    /\ \A k \in 2..Len(request.sends) : request.sends[k] = 1000 * (k - 1)
    /\ request.state = "backoff" =>
          C13_Retryable(request.error) /\ Len(request.sends) <= 5
    /\ request.error.code # "none" /\ ~C13_Retryable(request.error) =>
          request.state = "rejected" /\ encoded.status = "error"
    /\ request.state = "rejected" => encoded.status = "error"

C13_Resend ==
    Len(request.sends) > 0 /\ Len(request'.sends) = Len(request.sends) + 1 =>
        C13_Retryable(request.error) /\ request.state = "backoff"

-----------------------------------------------------------------------------
(* The pipeline on a collection created with keepDuplicate = true *)

MaxDupLoads == 2

InitDup ==
    /\ InitCommon
    /\ qdrant = EmptyStore
    /\ keepDuplicateSetting = TRUE
    /\ settings.sparse = FALSE
    /\ build = "filtered"
    /\ budget = [loads |-> MaxDupLoads, other |-> 0, faults |-> 0,
                 votes |-> 0, searches |-> 0, saves |-> 0]

NextDup ==
    \/ \E r \in Resources : EmitLoad(r)
    \/ processMsg
    \/ mongoStore
    \/ qdrantUSAStore
    \/ qdrantIndiaStore

SpecDup == InitDup /\ [][NextDup]_vars

\* the chunk events processed for a resource so far
ChunkEvents(r) == Cardinality({i \in 1..Len(processed[r]) : processed[r][i] = "chunk"})

\* C14: in a collection with keepDuplicate = true the point id is the
\* chunk's own uuid, so once two chunk events that hold the same text (the
\* split "y" of both contents) have gone through the ingestion worker and
\* the persist workers, the vector store holds two points for that text.
C14_DuplicatesKept ==
    /\ keepDuplicateSetting
    /\ \E r \in Resources : ChunkEvents(r) = 2
    /\ ragQ = << >>
    /\ \A q \in PersistQueues : persistQ[q] = << >>
    => \E p1, p2 \in qdrant[ChunkColl].points :
           p1.id # p2.id /\ p1.content = p2.content


-----------------------------------------------------------------------------
(* Semantic chunker: sentences grouped into chunks *)

\* currentChunk.join(" ")
RECURSIVE Join(_)
Join(parts) ==
    IF parts = << >> THEN << >>
    ELSE IF Len(parts) = 1 THEN parts[1]
    ELSE parts[1] \o <<" ">> \o Join(Tail(parts))

mergeFitsAnyway(combined, maxChunkSize) == TRUE

\* combined.length <= this.maxChunkSize
mergeFits(combined, maxChunkSize) == Len(combined) <= maxChunkSize

\* one turn of the loop, had the chunk closed at a breakpoint been dropped
GroupStepLosing(acc, sentence, i, bps, opts) ==
    LET forced == /\ Len(acc.currentChunk) > 0
                  /\ acc.currentLength + 1 + Len(sentence) > opts.maxChunkSize
        acc1 == IF forced
                  THEN [chunks |-> Append(acc.chunks, Join(acc.currentChunk)),
                        currentChunk |-> << >>, currentLength |-> 0]
                ELSE acc
        semantic == /\ i \in bps
                    /\ Len(acc1.currentChunk) > 0
                    /\ acc1.currentLength >= opts.minChunkSize
        acc2 == IF semantic
                  THEN [chunks |-> acc1.chunks,
                        currentChunk |-> << >>, currentLength |-> 0]
                ELSE acc1
        pushed == Append(acc2.currentChunk, sentence)
    IN [chunks |-> acc2.chunks,
        currentChunk |-> pushed,
        currentLength |-> acc2.currentLength
                            + (IF Len(pushed) > 1 THEN 1 ELSE 0) + Len(sentence)]

\* one turn of the loop of groupSentencesIntoChunks, at JS index i
GroupStep(acc, sentence, i, bps, opts) ==
    LET forced == /\ Len(acc.currentChunk) > 0
                  /\ acc.currentLength + 1 + Len(sentence) > opts.maxChunkSize
        acc1 == IF forced
                  THEN [chunks |-> Append(acc.chunks, Join(acc.currentChunk)),
                        currentChunk |-> << >>, currentLength |-> 0]
                ELSE acc
        semantic == /\ i \in bps
                    /\ Len(acc1.currentChunk) > 0
                    /\ acc1.currentLength >= opts.minChunkSize
        acc2 == IF semantic
                  THEN [chunks |-> Append(acc1.chunks, Join(acc1.currentChunk)),
                        currentChunk |-> << >>, currentLength |-> 0]
                ELSE acc1
        pushed == Append(acc2.currentChunk, sentence)
    IN [chunks |-> acc2.chunks,
        currentChunk |-> pushed,
        currentLength |-> acc2.currentLength
                            + (IF Len(pushed) > 1 THEN 1 ELSE 0) + Len(sentence)]

\* the loop of groupSentencesIntoChunks over the first n sentences
RECURSIVE GroupLoop(_, _, _, _)
GroupLoop(ss, n, bps, opts) ==
    IF n = 0 THEN [chunks |-> << >>, currentChunk |-> << >>, currentLength |-> 0]
    ELSE GroupStep(GroupLoop(ss, n - 1, bps, opts), ss[n], n - 1, bps, opts)

\* SemanticChunker.groupSentencesIntoChunks(sentences, breakpoints)
groupSentencesIntoChunks(ss, bps, opts) ==
    LET end == GroupLoop(ss, Len(ss), bps, opts)
        done == end.chunks
        lastChunkContent == Join(end.currentChunk)
    IN IF Len(end.currentChunk) = 0 THEN done
       ELSE IF Len(done) > 0 /\ Len(lastChunkContent) < opts.minChunkSize
         THEN LET combined == done[Len(done)] \o <<" ">> \o lastChunkContent IN
              IF mergeFits(combined, opts.maxChunkSize)
                THEN [done EXCEPT ![Len(done)] = combined]
              ELSE Append(done, lastChunkContent)
       ELSE Append(done, lastChunkContent)

\* SemanticChunker.chunk, from the sentences on: a single sentence is returned
\* as it is
chunk ==
    /\ sentences # << >>
    /\ ~chunkTexts.returned
    /\ chunkTexts' =
          [returned |-> TRUE,
           chunks |-> IF Len(sentences) = 1 THEN sentences
                      ELSE groupSentencesIntoChunks(sentences, breakpoints, chunker)]
    /\ UNCHANGED <<chunker, sentences, breakpoints>>
    /\ UNCHANGED <<svars, keepDuplicateSetting, evars, avars, evalResult, zvars>>

MaxSentences == 4
\* sizes scaled down from the defaults 50 and 2000
ChunkerOptions == {[minChunkSize |-> 3, maxChunkSize |-> 6]}
SentenceLens == {1, 3, 6, 8}
SentenceLists == UNION {[1..n -> {Rep("s", l) : l \in SentenceLens}] : n \in 1..MaxSentences}

InitChunk ==
    /\ InitServices
    /\ qdrant = EmptyStore
    /\ keepDuplicateSetting = FALSE
    /\ settings = [sparse |-> FALSE, rerank |-> FALSE]
    /\ build = "filtered"
    /\ budget = [loads |-> 0, other |-> 0, faults |-> 0,
                 votes |-> 0, searches |-> 0, saves |-> 0]
    /\ chunker \in ChunkerOptions
    /\ sentences \in SentenceLists
    /\ breakpoints \in SUBSET (1..(Len(sentences) - 1))
    /\ chunkTexts = NoChunks
    /\ InitAdapter
    /\ evalResult = NoEval
    /\ InitLater

NextChunk == chunk

SpecChunk == InitChunk /\ [][NextChunk]_vars

\* C15: when no sentence is longer than maxChunkSize, no chunk the
\* semantic chunker returns is longer than maxChunkSize, whatever the
\* breakpoints, a trailing chunk merged into its predecessor included.
C15_ChunksWithinMax ==
    /\ chunkTexts.returned
    /\ \A i \in 1..Len(sentences) : Len(sentences[i]) <= chunker.maxChunkSize
    => \A k \in 1..Len(chunkTexts.chunks) : Len(chunkTexts.chunks[k]) <= chunker.maxChunkSize

\* a short trailing chunk was glued to its predecessor: the last chunk holds
\* a space, the sentences before it were cut at a breakpoint
C15_TrailingMerged ==
    /\ chunkTexts.returned
    /\ \A i \in 1..Len(sentences) : Len(sentences[i]) <= chunker.maxChunkSize
    /\ Len(sentences) = 3
    /\ breakpoints = {2}
    /\ Len(chunkTexts.chunks) = 1
    /\ Len(sentences[3]) < chunker.minChunkSize

\* C16: every chunk the semantic chunker returns but the last is at least
\* minChunkSize long, unless it is one sentence longer than maxChunkSize.
C16_ChunksAtLeastMin ==
    chunkTexts.returned =>
        \A k \in 1..(Len(chunkTexts.chunks) - 1) :
            \/ Len(chunkTexts.chunks[k]) >= chunker.minChunkSize
            \/ /\ Len(chunkTexts.chunks[k]) > chunker.maxChunkSize
               /\ \E i \in 1..Len(sentences) : sentences[i] = chunkTexts.chunks[k]


-----------------------------------------------------------------------------
(* Linear projection adapter and its service *)

\* numbers are held in thousandths
SCALE == 1000
\* the dense embedding dimension of the collection
DIM == 2

\* tf.eye(inputDim) and tf.zeros([inputDim])
Identity(d) ==
    [weights |-> [j \in 1..d |-> [i \in 1..d |-> IF i = j THEN SCALE ELSE 0]],
     bias |-> [i \in 1..d |-> 0]]

RECURSIVE SumOver(_, _)
SumOver(f, n) == IF n = 0 THEN 0 ELSE f[n] + SumOver(f, n - 1)

\* the dense layer: x W + b
Predict(model, v) ==
    [i \in 1..Len(model.bias) |->
        SumOver([j \in 1..Len(v) |-> v[j] * model.weights[j][i]], Len(v)) \div SCALE
          + model.bias[i]]

\* tf.norm(x, 'euclidean')
Norm(v) ==
    LET sq == SumOver([i \in 1..Len(v) |-> v[i] * v[i]], Len(v)) IN
    CHOOSE n \in 0..(4 * SCALE) : n * n <= sq /\ sq < (n + 1) * (n + 1)

\* x.div(norm.add(1e-12)): the zero vector stays the zero vector
Normalized(v) ==
    IF Norm(v) = 0 THEN v
    ELSE [i \in 1..Len(v) |-> (v[i] * SCALE) \div Norm(v)]

Sign(x) == IF x > 0 THEN 1 ELSE IF x < 0 THEN -1 ELSE 0

\* what model.fit may leave behind: the weights as they were, or each weight
\* and bias one step nearer to mapping the query on the chunk
FitOutcomes(model, q, c) ==
    LET y == Predict(model, q) IN
    { model,
      [weights |-> [j \in 1..Len(q) |-> [i \in 1..Len(c) |->
                      model.weights[j][i] + Sign((c[i] - y[i]) * q[j])]],
       bias |-> [i \in 1..Len(c) |-> model.bias[i] + Sign(c[i] - y[i])]] }

\* LinearProjectionAdapter.loadOrInitialize of a new instance
loadOrInitialize(file, inputDim) ==
    IF file.exists
      THEN [cached |-> TRUE, inputDim |-> file.inputDim,
            trainingCount |-> file.trainingCount,
            model |-> [weights |-> file.weights,
                       bias |-> IF Len(file.bias) > 0 THEN file.bias
                                ELSE [i \in 1..file.inputDim |-> 0]]]
    ELSE [cached |-> TRUE, inputDim |-> inputDim, trainingCount |-> 0,
          model |-> Identity(inputDim)]

\* AdapterService.getAdapter(collectionId, inputDim)
getAdapter(cache, file, inputDim) ==
    IF cache.cached THEN cache ELSE loadOrInitialize(file, inputDim)

\* the AdapterData that save writes
AdapterData(inst) ==
    [exists |-> TRUE, weights |-> inst.model.weights, bias |-> inst.model.bias,
     inputDim |-> inst.inputDim, outputDim |-> inst.inputDim,
     trainingCount |-> inst.trainingCount]

trainMismatchQueryOnly(inst, q, c) == Len(q) # inst.inputDim

\* queryVector[0].length !== this.inputDim || chunkVector[0].length !== this.inputDim
trainMismatch(inst, q, c) == Len(q) # inst.inputDim \/ Len(c) # inst.inputDim

\* queryVector.length !== this.inputDim
transformMismatch(inst, v) == Len(v) # inst.inputDim

\* LinearProjectionAdapter.transform past its dimension check
transformed(inst, v) == Normalized(Predict(inst.model, v))

\* the shapes tf.tensor2d and model.fit accept
fitShapesOk(inst, q, c) == Len(q) = inst.inputDim /\ Len(c) = inst.inputDim

Call(op, error, input, target, output) ==
    [op |-> op, error |-> error, input |-> input, target |-> target,
     output |-> output]


MaxCalls == 4
MaxAdapterFaults == 1

\* one more call, while the environment may still make one
Called(oks) ==
    /\ calls < MaxCalls
    /\ calls' = calls + 1
    /\ Cost(oks) <= budget.faults
    /\ budget' = [budget EXCEPT !.faults = @ - Cost(oks)]

AdapterFrame ==
    UNCHANGED <<ragQ, persistQ, dlq, resource, mongo, qdrant, last, blocked,
                processed, uuid, purged, settings, build, fbQ, feedbackDocs,
                votes, trained, triples, result, keepDuplicateSetting, evars,
                cvars, evalResult, zvars>>

\* AdapterService.trainWithFeedback(collectionId, [q], [c]): getAdapter,
\* train, save.  fault: model.fit or the write of the record is rejected
trainWithFeedback(q, c) ==
    \E fault \in {"none", "fit", "save"} :
      LET inst == getAdapter(adapters, adapterFile, Len(q)) IN
      /\ Called(<<fault = "none">>)
      /\ IF trainMismatch(inst, q, c)
           THEN /\ fault = "none"
                /\ adapters' = inst
                /\ lastCall' = Call("train", "mismatch", q, c, << >>)
                /\ UNCHANGED <<adapterFile, completed>>
         ELSE IF fault = "fit" \/ ~fitShapesOk(inst, q, c)
           THEN /\ adapters' = inst
                /\ lastCall' = Call("train", "fit", q, c, << >>)
                /\ UNCHANGED <<adapterFile, completed>>
         ELSE \E fitted \in FitOutcomes(inst.model, Normalized(q), Normalized(c)) :
                LET after == [inst EXCEPT !.model = fitted,
                                          !.trainingCount = @ + 1]
                IN /\ adapters' = after
                   /\ completed' = completed + 1
                   /\ adapterFile' = IF fault = "save" THEN adapterFile
                                     ELSE AdapterData(after)
                   /\ lastCall' = Call("train", IF fault = "save" THEN "save"
                                                ELSE "none", q, c, << >>)
      /\ AdapterFrame

\* AdapterService.transformQuery(collectionId, v)
transformQuery(v) ==
    \E readable \in BOOLEAN :
      LET exists == readable /\ adapterFile.exists /\ adapterFile.trainingCount > 0
          inst == getAdapter(adapters, adapterFile, Len(v))
      IN
      /\ Called(<<readable>>)
      /\ (~adapterFile.exists => readable)
      /\ IF ~exists
           THEN /\ lastCall' = Call("transformQuery", "none", v, << >>, v)
                /\ UNCHANGED adapters
         ELSE /\ adapters' = inst
              /\ lastCall' = IF transformMismatch(inst, v)
                               THEN Call("transformQuery", "mismatch", v, << >>, v)
                             ELSE Call("transformQuery", "none", v, << >>,
                                  transformed(inst, v))
      /\ UNCHANGED <<adapterFile, completed>>
      /\ AdapterFrame

\* LinearProjectionAdapter.transform(v) on the collection's adapter
transform(v) ==
    LET inst == getAdapter(adapters, adapterFile, DIM) IN
    /\ Called(<< >>)
    /\ adapters' = inst
    /\ lastCall' = IF transformMismatch(inst, v)
                     THEN Call("transform", "mismatch", v, << >>, << >>)
                   ELSE Call("transform", "none", v, << >>, transformed(inst, v))
    /\ UNCHANGED <<adapterFile, completed>>
    /\ AdapterFrame

\* LinearProjectionAdapter.save() on the cached adapter
save ==
    /\ adapters.cached
    /\ \E ok \in BOOLEAN :
         /\ Called(<<ok>>)
         /\ adapterFile' = IF ok THEN AdapterData(adapters) ELSE adapterFile
         /\ lastCall' = Call("save", IF ok THEN "none" ELSE "save", << >>, << >>, << >>)
    /\ UNCHANGED <<adapters, completed>>
    /\ AdapterFrame

\* AdapterService.clearCache(collectionId)
clearCache ==
    /\ adapters.cached
    /\ Called(<< >>)
    /\ adapters' = NoAdapter
    /\ lastCall' = Call("clearCache", "none", << >>, << >>, << >>)
    /\ UNCHANGED <<adapterFile, completed>>
    /\ AdapterFrame

\* AdapterService.getAdapter(collectionId, DIM) with nothing cached
reload ==
    /\ ~adapters.cached
    /\ Called(<< >>)
    /\ adapters' = getAdapter(adapters, adapterFile, DIM)
    /\ lastCall' = Call("reload", "none", << >>, << >>, << >>)
    /\ UNCHANGED <<adapterFile, completed>>
    /\ AdapterFrame

\* vectors of the collection's dimension, and vectors of another
Vectors == {<<1000, 0>>, <<600, 800>>, <<1000, 2000>>, <<0, 0>>}
WrongVectors == {<<1000>>, <<1000, 0, 0>>}

InitAdapt ==
    /\ InitCommon
    /\ qdrant = EmptyStore
    /\ keepDuplicateSetting = FALSE
    /\ settings = [sparse |-> FALSE, rerank |-> FALSE]
    /\ build = "filtered"
    /\ budget = [loads |-> 0, other |-> 0, faults |-> MaxAdapterFaults,
                 votes |-> 0, searches |-> 0, saves |-> 0]

NextAdapt ==
    \/ \E q \in {<<1000, 0>>, <<1000>>}, c \in {<<600, 800>>, <<600, 800, 0>>} :
           trainWithFeedback(q, c)
    \/ \E v \in Vectors \cup WrongVectors : transformQuery(v)
    \/ \E v \in Vectors \cup WrongVectors : transform(v)
    \/ save
    \/ clearCache
    \/ reload

SpecAdapt == InitAdapt /\ [][NextAdapt]_vars


-----------------------------------------------------------------------------
(* Claims about the adapter *)

\* the trainingCount of the collection's adapter: that of the cached adapter,
\* else that of the stored record, else 0
TrainingCount ==
    IF adapters.cached THEN adapters.trainingCount ELSE adapterFile.trainingCount

Near(a, b) == a - b <= 5 /\ b - a <= 5

\* C17: an adapter that was never trained and has no stored record (W = I,
\* b = 0) hands back every vector of dimension D as it was given (to within
\* 0.005 a component).
C17_UntrainedIsIdentity ==
    /\ lastCall.op \in {"transform", "transformQuery"}
    /\ lastCall.error = "none"
    /\ ~adapterFile.exists
    /\ TrainingCount = 0
    /\ Len(lastCall.input) = DIM
    => /\ Len(lastCall.output) = DIM
       /\ \A i \in 1..DIM : Near(lastCall.output[i], lastCall.input[i])

\* C18: over any sequence of trainWithFeedback, transformQuery, save,
\* clearCache and reload calls, the adapter's trainingCount never decreases
\* (so a trained adapter stays trained) and equals the number of train calls
\* that ran to their end.
C18_CountsTrainCalls ==
    /\ [][TrainingCount' >= TrainingCount]_vars
    /\ [](TrainingCount = completed)

\* what the call that has just returned found as the adapter's weights, bias
\* and trainingCount is what it leaves
C19_Untouched ==
    /\ adapterFile' = adapterFile
    /\ completed' = completed
    /\ adapters'.cached
    /\ IF adapters.cached
         THEN /\ adapters'.model = adapters.model
              /\ adapters'.trainingCount = adapters.trainingCount
       ELSE IF adapterFile.exists
         THEN /\ adapters'.model.weights = adapterFile.weights
              /\ adapters'.model.bias = adapterFile.bias
              /\ adapters'.trainingCount = adapterFile.trainingCount
       ELSE /\ adapters'.trainingCount = 0
            /\ \A j, i \in 1..adapters'.inputDim :
                  adapters'.model.weights[j][i] = IF i = j THEN 1000 ELSE 0
            /\ \A i \in 1..adapters'.inputDim : adapters'.model.bias[i] = 0

C19_Step ==
    calls' # calls =>
      /\ lastCall'.op = "train"
           /\ (\/ Len(lastCall'.input) # adapters'.inputDim
               \/ Len(lastCall'.target) # adapters'.inputDim)
         => lastCall'.error = "mismatch" /\ C19_Untouched
      /\ lastCall'.op = "transform" /\ Len(lastCall'.input) # adapters'.inputDim
         => lastCall'.error = "mismatch" /\ C19_Untouched
      /\ lastCall'.op = "transformQuery"
           /\ (adapters'.cached => Len(lastCall'.input) # adapters'.inputDim)
         => /\ lastCall'.output = lastCall'.input
            /\ adapterFile' = adapterFile
            /\ completed' = completed
            /\ TrainingCount' = TrainingCount

\* C19: train and transform, given a vector whose length is not the
\* adapter's dimension D, fail with the dimension-mismatch error and leave
\* weights, bias and trainingCount as they were; transformQuery, given such
\* a vector, hands it back.
C19_MismatchChangesNothing == [][C19_Step]_vars

\* a trained adapter has just turned away a training pair of another dimension
C19_TrainedTurnsAway ==
    /\ lastCall.op = "train"
    /\ lastCall.error = "mismatch"
    /\ Len(lastCall.input) = DIM
    /\ Len(lastCall.target) # DIM
    /\ adapters.trainingCount > 0
    /\ adapterFile.exists


-----------------------------------------------------------------------------
(* Evaluation: the metrics of a test case, on what search returned *)

TOP_K == 5

Includes(list, id) == \E i \in 1..Len(list) : list[i] = id

\* calculateHit(expectedIds, retrievedIds)
calculateHit(expectedIds, retrievedIds) ==
    \E i \in 1..Len(expectedIds) : Includes(retrievedIds, expectedIds[i])

\* calculateRecall(expectedIds, retrievedIds)
calculateRecall(expectedIds, retrievedIds) ==
    IF Len(expectedIds) = 0 THEN Frac(0, 1)
    ELSE Frac(Cardinality({i \in 1..Len(expectedIds) :
                              Includes(retrievedIds, expectedIds[i])}),
              Len(expectedIds))

\* calculateReciprocalRank(expectedIds, retrievedIds)
calculateReciprocalRank(expectedIds, retrievedIds) ==
    LET Matches(i) == Includes(expectedIds, retrievedIds[i]) IN
    IF \E i \in 1..Len(retrievedIds) : Matches(i)
      THEN Frac(1, CHOOSE i \in 1..Len(retrievedIds) :
                      Matches(i) /\ \A j \in 1..(i - 1) : ~Matches(j))
    ELSE Frac(0, 1)

\* the chunks of the collection under evaluation, all of one owner
EvalChunks ==
    [i \in 1..6 |->
        [id |-> i, data |-> <<<<"x">>, <<"y">>, <<"z">>, <<"u">>, <<"v">>, <<"w">>>>[i],
         vs |-> << >>, rid |-> "r1", cid |-> CollectionId, owner |-> <<"a">>]]

\* expectedChunkIds of a test case: ids of stored chunks, and one of none
ExpectedIds ==
    {generateContentId(EvalChunks[i].data, CollectionId, <<"a">>) : i \in 1..6}
      \cup {<<"gone">>}

MaxExpected == 2

\* the body of the loop of runEvaluation, once search has returned for the
\* query of the test case with topK = TOP_K
scoreCase(expectedChunkIds) ==
    /\ result.status = "ok"
    /\ result.topK = TOP_K
    /\ ~result.useFeedback
    /\ ~evalResult.scored
    /\ LET retrievedChunkIds == [i \in 1..Len(result.items) |-> result.items[i].id] IN
       evalResult' =
           [scored |-> TRUE, expectedChunkIds |-> expectedChunkIds,
            retrievedChunkIds |-> retrievedChunkIds,
            isHit |-> calculateHit(expectedChunkIds, retrievedChunkIds),
            recall |-> calculateRecall(expectedChunkIds, retrievedChunkIds),
            reciprocalRank |->
                calculateReciprocalRank(expectedChunkIds, retrievedChunkIds)]
    /\ UNCHANGED <<svars, keepDuplicateSetting, evars, cvars, avars, zvars>>

MaxEvalFaults == 0

InitEval ==
    /\ InitCommon
    /\ qdrant = QdrantSave(EmptyStore, EvalChunks, FALSE, "none")
    /\ keepDuplicateSetting = FALSE
    /\ settings.sparse = FALSE
    /\ build = "filtered"
    /\ budget = [loads |-> 0, other |-> 0, faults |-> MaxEvalFaults,
                 votes |-> 0, searches |-> 1, saves |-> 0]

NextEval ==
    \/ search
    \/ \E expected \in UNION {[1..n -> ExpectedIds] : n \in 0..MaxExpected} :
           scoreCase(expected)

SpecEval == InitEval /\ [][NextEval]_vars

\* C20: for a test case scored on what search returned for topK = 5, Hit
\* is true exactly when ReciprocalRank > 0, Recall lies between 0 and 1, and
\* ReciprocalRank is 0 or 1/r for a rank r from 1 to 5.
C20_MetricsWellFormed ==
    evalResult.scored =>
        /\ evalResult.isHit <=> evalResult.reciprocalRank.num > 0
        /\ 0 <= evalResult.recall.num
        /\ evalResult.recall.num <= evalResult.recall.den
        /\ evalResult.recall.den > 0
        /\ \/ evalResult.reciprocalRank = [num |-> 0, den |-> 1]
           \/ /\ evalResult.reciprocalRank.num = 1
              /\ evalResult.reciprocalRank.den \in 1..5

-----------------------------------------------------------------------------
(* Collection service: the Collection record behind the short-TTL cache *)

\* JSON.stringify(collection) as cset is given it, JSON.parse of what cget gave
Stringify(collection) == <<"json", collection.name>>
Parse(json) == [name |-> json[2]]

\* outcomes of redis.cget that the caller can see: the value, or a rejection
CgetFaults == {"none", "cget"}

\* getCollectionById up to `await redis.cget(...)`: a hit returns the parsed
\* value, a miss or a rejected cget goes on to the document store
getCollectionByIdCget(g) ==
    /\ getting[g].pc = "idle"
    /\ \E fail \in CgetFaults :
        LET cachedCollection == IF fail = "cget" THEN Miss ELSE redisCache
            after == writing.pc = "returned"
        IN getting' = [getting EXCEPT ![g] =
               IF cachedCollection # Miss
                 THEN [pc |-> "returned", held |-> Gone, afterWrite |-> after,
                       returned |-> <<"ok", Parse(cachedCollection)>>]
               ELSE [pc |-> "findById", held |-> Gone, afterWrite |-> after,
                     returned |-> Miss]]
    /\ UNCHANGED <<svars, keepDuplicateSetting, evars, cvars, avars, evalResult,
                   gvars, nvars, collectionDoc, redisCache, writing>>

\* `await Collection.findById(id)`: throws ApiError 404 when there is none
getCollectionByIdFind(g) ==
    /\ getting[g].pc = "findById"
    /\ getting' = [getting EXCEPT ![g] =
           IF collectionDoc = Gone
             THEN [@ EXCEPT !.pc = "returned", !.returned = <<"error", Gone>>]
           ELSE [@ EXCEPT !.pc = "cset", !.held = collectionDoc]]
    /\ UNCHANGED <<svars, keepDuplicateSetting, evars, cvars, avars, evalResult,
                   gvars, nvars, collectionDoc, redisCache, writing>>

\* `redis.cset(cacheKey, JSON.stringify(collection)); return collection`
getCollectionByIdFill(g) ==
    /\ getting[g].pc = "cset"
    /\ redisCache' = Stringify(getting[g].held)
    /\ getting' = [getting EXCEPT ![g] =
           [@ EXCEPT !.pc = "returned", !.returned = <<"ok", getting[g].held>>]]
    /\ UNCHANGED <<svars, keepDuplicateSetting, evars, cvars, avars, evalResult,
                   gvars, nvars, collectionDoc, writing>>

\* updateCollection up to `await Collection.findByIdAndUpdate(...)`
updateCollectionWrite ==
    /\ writing.pc = "idle"
    /\ collectionDoc' = CollectionNamed("new")
    /\ writing' = [pc |-> "del", op |-> "update"]
    /\ UNCHANGED <<svars, keepDuplicateSetting, evars, cvars, avars, evalResult,
                   gvars, nvars, redisCache, getting>>

\* deleteCollection up to `await Collection.findByIdAndDelete(id)`
deleteCollectionWrite ==
    /\ writing.pc = "idle"
    /\ collectionDoc' = Gone
    /\ writing' = [pc |-> "del", op |-> "delete"]
    /\ UNCHANGED <<svars, keepDuplicateSetting, evars, cvars, avars, evalResult,
                   gvars, nvars, redisCache, getting>>

\* `redis.del(getCollectionKey(id)); return collection` of either
invalidateAndReturn ==
    /\ writing.pc = "del"
    /\ redisCache' = Miss
    /\ writing' = [writing EXCEPT !.pc = "returned"]
    /\ UNCHANGED <<svars, keepDuplicateSetting, evars, cvars, avars, evalResult,
                   gvars, nvars, collectionDoc, getting>>

\* the entry of the cache reaches its time to live
expire ==
    /\ redisCache # Miss
    /\ redisCache' = Miss
    /\ UNCHANGED <<svars, keepDuplicateSetting, evars, cvars, avars, evalResult,
                   gvars, nvars, collectionDoc, getting, writing>>

InitCache ==
    /\ InitCommon
    /\ qdrant = EmptyStore
    /\ keepDuplicateSetting = FALSE
    /\ settings = [sparse |-> FALSE, rerank |-> FALSE]
    /\ build = "filtered"
    /\ budget = [loads |-> 0, other |-> 0, faults |-> 0,
                 votes |-> 0, searches |-> 0, saves |-> 0]

NextCache ==
    \/ \E g \in Getters : getCollectionByIdCget(g)
    \/ \E g \in Getters : getCollectionByIdFind(g)
    \/ \E g \in Getters : getCollectionByIdFill(g)
    \/ updateCollectionWrite
    \/ deleteCollectionWrite
    \/ invalidateAndReturn
    \/ expire

SpecCache == InitCache /\ [][NextCache]_vars

\* C21: a getCollectionById call made after updateCollection or
\* deleteCollection has returned never returns the collection as it was
\* before that update or delete, whatever calls overlapped the update.
C21_NoStaleAfterWrite ==
    \A g \in Getters :
        getting[g].pc = "returned" /\ getting[g].afterWrite
            => getting[g].returned # <<"ok", CollectionNamed("old")>>

-----------------------------------------------------------------------------
(* Adapter service: getAdapter calls that overlap *)

LoadFaults == {"none", "load"}

\* getAdapter up to `await adapter.loadOrInitialize()`: a cached instance is
\* returned at once, otherwise a new object is made and its load awaited
getAdapterEnter(g) ==
    /\ getAdapterCall[g].pc = "idle"
    /\ IF instanceCache # 0
         THEN /\ getAdapterCall' = [getAdapterCall EXCEPT ![g] =
                     [pc |-> "returned", adapter |-> 0,
                      returned |-> instanceCache, epoch |-> cleared]]
              /\ UNCHANGED instancesMade
       ELSE /\ instancesMade' = instancesMade + 1
            /\ getAdapterCall' = [getAdapterCall EXCEPT ![g] =
                   [pc |-> "loading", adapter |-> instancesMade + 1,
                    returned |-> 0, epoch |-> 0]]
    /\ UNCHANGED <<svars, keepDuplicateSetting, evars, cvars, avars, evalResult,
                   kvars, nvars, instanceCache, cleared>>

\* loadOrInitialize settles: `this.adapters.set(collectionId, adapter);
\* return this.adapters.get(collectionId)!`, or the rejection is passed on
getAdapterLoaded(g) ==
    /\ getAdapterCall[g].pc = "loading"
    /\ \E fail \in LoadFaults :
        IF fail = "load"
          THEN /\ getAdapterCall' = [getAdapterCall EXCEPT ![g] =
                      [@ EXCEPT !.pc = "threw"]]
               /\ UNCHANGED instanceCache
        ELSE /\ instanceCache' = getAdapterCall[g].adapter
             /\ getAdapterCall' = [getAdapterCall EXCEPT ![g] =
                    [@ EXCEPT !.pc = "returned",
                              !.returned = getAdapterCall[g].adapter,
                              !.epoch = cleared]]
    /\ UNCHANGED <<svars, keepDuplicateSetting, evars, cvars, avars, evalResult,
                   kvars, nvars, instancesMade, cleared>>

\* clearCache(collectionId) of the service
clearCacheOverlapping ==
    /\ cleared < MaxClears
    /\ cleared' = cleared + 1
    /\ instanceCache' = 0
    /\ UNCHANGED <<svars, keepDuplicateSetting, evars, cvars, avars, evalResult,
                   kvars, nvars, instancesMade, getAdapterCall>>

InitInstances == InitCache

NextInstances ==
    \/ \E g \in AdapterCallers : getAdapterEnter(g)
    \/ \E g \in AdapterCallers : getAdapterLoaded(g)
    \/ clearCacheOverlapping

SpecInstances == InitInstances /\ [][NextInstances]_vars

\* C22: all getAdapter calls for the collection that return with no
\* clearCache between them return the same instance, calls that overlapped
\* while the adapter was being loaded included.
C22_OneInstance ==
    \A g, h \in AdapterCallers :
        /\ getAdapterCall[g].pc = "returned"
        /\ getAdapterCall[h].pc = "returned"
        /\ getAdapterCall[g].epoch = getAdapterCall[h].epoch
        /\ cleared = getAdapterCall[g].epoch
        => getAdapterCall[g].returned = getAdapterCall[h].returned

-----------------------------------------------------------------------------
(* Dead-letter queues of the five consumers *)

\* the dead-letter sibling `<name>_FAILED` of a queue
FailedSibling(q) == <<q, "_FAILED">>

\* C23: for each of the five consumer queues Q, a message whose processing
\* threw has been published, content unchanged, to the queue Q_FAILED,
\* when the broker accepted what the failure handler published.
C23_DeadLetteredToSibling ==
    \A q \in ConsumerQueues :
        last[q].threw /\ last[q].envOk =>
            BagIn([queue |-> FailedSibling(q), content |-> last[q].msg], dlq)

-----------------------------------------------------------------------------
(* Feedback fusion, as the search that has just run should have done it *)

\* the prior queries that take part: at most FEEDBACK_LIMIT, similarity > 0.85
PriorQueries(query, ownerId) ==
    LET Close(fb) == fb.score > FUSE_THRESHOLD IN
    IF ~qdrant[FeedbackColl].exists THEN << >>
    ELSE SelectSeq(denseSearch(qdrant, FeedbackColl, query, FEEDBACK_LIMIT, ownerId),
                   Close)

\* the counts recorded for a chunk by the FeedbackDocs of the prior queries,
\* each with the similarity of its query
RecordedFor(id, similar) ==
    UNION {{<<k, d.hits[id].count>> :
               d \in {e \in feedbackDocs : e.id = similar[k].id /\ id \in DOMAIN e.hits}} :
           k \in 1..Len(similar)}

RECURSIVE SumBoosts(_, _)
SumBoosts(recorded, similar) ==
    IF recorded = {} THEN 0
    ELSE LET kc == CHOOSE x \in recorded : TRUE
         IN (Ln(kc[2]) * similar[kc[1]].score) \div 10000
              + SumBoosts(recorded \ {kc}, similar)

\* the results of the search that has just run are those of `query` fused
\* as stated: same chunks, ln(count) x similarity added per recorded count,
\* sorted by non-increasing score
FusedAsStated(query) ==
    LET base == denseSearch(qdrant, ChunkColl, query, CANDIDATES, result.owner)
        similar == PriorQueries(query, result.owner)
        items == result.items
    IN
    /\ Len(similar) <= FEEDBACK_LIMIT
    /\ Len(items) = Len(base)
    /\ \A i \in 1..Len(base) : \E j \in 1..Len(items) :
          LET recorded == RecordedFor(base[i].id, similar) IN
          /\ items[j].id = base[i].id
          /\ \A kc \in recorded : kc[2] >= 1
          /\ items[j].score = base[i].score + SumBoosts(recorded, similar)
    /\ \A i, j \in 1..Len(items) : i < j => items[i].score >= items[j].score

C24_Step ==
    /\ budget'.searches < budget.searches
    /\ result'.status = "ok"
    /\ result'.useFeedback
    /\ result'.fault = "none"
    /\ ~settings.sparse
    /\ ~settings.rerank
    => \E query \in Queries : FusedAsStated(query)'

\* C24: with useFeedback, for every count a FeedbackDoc can record, fusion
\* adds ln(count) x similarity to the score of each recorded chunk that is in
\* the results, for at most 5 prior queries of similarity > 0.85, adds or
\* removes no result, leaves the other chunks at their score, and returns
\* the results sorted by non-increasing score.
C24_FusionAsStated == [][C24_Step]_vars

-----------------------------------------------------------------------------
(* The status chunked, and what was published for the content *)

\* the chunk texts of the save events published so far for a resource
PublishedTexts(r) ==
    LET q == persistQ[MONGO_QUEUE] IN
    UNION {{q[i].chunks[k].data : k \in 1..Len(q[i].chunks)} :
           i \in {j \in 1..Len(q) : q[j].action = "save" /\ q[j].rid = r}}

\* C25: whenever the status of a resource is chunked, a chunk event for its
\* current content has been processed successfully: save events for every
\* chunk of that content were published.
C25_ChunkedMeansPublished ==
    \A r \in Resources :
        resource[r].metadata.status = "chunked" =>
            SeqToSet(SplitText(resource[r].content)) \subseteq PublishedTexts(r)

-----------------------------------------------------------------------------
(* A resource ingested again: what the stores hold afterwards *)

MaxReLoads == 2

InitReingest ==
    /\ InitPipeline
    /\ settings.sparse = FALSE
    /\ build = "filtered"
    /\ budget = [loads |-> MaxReLoads, other |-> 0, faults |-> 0,
                 votes |-> 0, searches |-> 0, saves |-> 0]

NextReingest ==
    \/ \E r \in Resources : EmitLoad(r)
    \/ processMsg
    \/ mongoStore
    \/ qdrantUSAStore
    \/ qdrantIndiaStore

SpecReingest == InitReingest /\ [][NextReingest]_vars

\* the chunk texts a persist queue's backend holds for a resource
HeldTexts(q, r) ==
    IF q = MONGO_QUEUE THEN {d.data : d \in Held(q, r)}
    ELSE {p.content : p \in Held(q, r)}

\* the last ingest event processed for the resource was a chunk event, and
\* nothing is left on the rag queue or on the persist queues
FullyProcessed(r) ==
    /\ processed[r] # << >>
    /\ processed[r][Len(processed[r])] = "chunk"
    /\ ragQ = << >>
    /\ \A q \in PersistQueues : persistQ[q] = << >>

\* C26: once a chunk event of a resource and its persist events are fully
\* processed, each store holds for the resource exactly the chunks of its
\* current content, one each: none of an earlier content or ingestion.
C26_OnlyCurrentChunks ==
    \A r \in Resources : FullyProcessed(r) =>
        \A q \in PersistQueues :
            /\ HeldTexts(q, r) = SeqToSet(SplitText(resource[r].content))
            /\ Cardinality(Held(q, r)) = Len(SplitText(resource[r].content))

-----------------------------------------------------------------------------
(* Content-addressed point ids when owner ids and texts may hold ':' *)

MaxOwnerSaves == 3

\* ownerId and text strings a client may send
OwnerIds == {<<"a">>, <<"a", ":", "b">>, <<"b">>}
OwnedTexts == {<<"c">>, <<"b", ":", "c">>, <<"x">>}

\* QdrantStorage.save of one chunk of an owner, keepDuplicate = false
ownedSave ==
    /\ budget.saves > 0
    /\ \E owner \in OwnerIds, text \in OwnedTexts :
        LET chunks == Batch(<<[data |-> text, vs |-> << >>, rid |-> "r1",
                               owner |-> owner]>>, uuid)
        IN
        /\ budget' = [budget EXCEPT !.saves = @ - 1]
        /\ qdrant' = QdrantSave(qdrant, chunks, FALSE, "none")
        /\ uuid' = uuid + Len(chunks)
        /\ triples' = triples \cup {TripleOf(chunks[i]) : i \in 1..Len(chunks)}
    /\ UNCHANGED <<ragQ, persistQ, dlq, resource, mongo, last, blocked,
                   processed, purged, settings, build, fbQ, feedbackDocs,
                   votes, trained, result, xvars>>

InitOwners ==
    /\ InitPipeline
    /\ settings = [sparse |-> FALSE, rerank |-> FALSE]
    /\ build = "filtered"
    /\ budget = [loads |-> 0, other |-> 0, faults |-> 0,
                 votes |-> 0, searches |-> 0, saves |-> MaxOwnerSaves]

NextOwners == ownedSave

SpecOwners == InitOwners /\ [][NextOwners]_vars

\* C27: chunks of one collection that belong to different owners never get
\* the same point id, whatever the owner ids and texts (':' included), so
\* every chunk saved still has its point, under its owner, after any saves
\* for other owners.
C27_OwnersNeverCollide ==
    \A t \in triples : \E p \in qdrant[ChunkColl].points :
        /\ p.owner = t[2]
        /\ p.content = t[3]
        /\ p.id = generateContentId(t[3], CollectionId, t[2])

-----------------------------------------------------------------------------
(* The pipeline status among the metadata of a resource *)

\* the metadata keys of a resource other than status and message
OtherKeys(meta) == [tag |-> meta.tag]

C28_Step ==
    \A r \in Resources :
        resource'[r].metadata # resource[r].metadata
            => OtherKeys(resource'[r].metadata) = OtherKeys(resource[r].metadata)

\* C28: writing the pipeline status of a resource (loaded, chunked, deleted
\* or error) changes only the status and message entries of its metadata:
\* every other metadata key of the resource is left as it was.
C28_OnlyStatusAndMessage == [][C28_Step]_vars

-----------------------------------------------------------------------------
(* insert of service/qdrant.ts, await by await, under the two consumers *)

\* the points QdrantStorage.save hands to insert for a save message
PointsOf(m) == [i \in 1..Len(m.chunks) |-> ChunkPoint(m.chunks[i], FALSE)]

InsertFrame ==
    UNCHANGED <<ragQ, resource, mongo, last, blocked, processed, uuid, purged,
                settings, budget, fvars, keepDuplicateSetting, evars, cvars,
                avars, evalResult, kvars, gvars>>

\* the handler's catch block: publish to the failed queue, then ack
insertFailed(q) ==
    /\ dlq' = publishToQueue(dlq, FailedQueue(q), Head(persistQ[q]))
    /\ persistQ' = [persistQ EXCEPT ![q] = Tail(@)]
    /\ inserting' = [inserting EXCEPT ![q] = [pc |-> "idle", outcome |-> "failed"]]

\* `await qdrantClient.collectionExists(collectionName)`
insertCheck(q) ==
    /\ persistQ[q] # << >>
    /\ Head(persistQ[q]).action = "save"
    /\ inserting[q].pc = "idle"
    /\ inserting' = [inserting EXCEPT ![q] =
           [pc |-> IF qdrant[ChunkColl].exists THEN "upsert" ELSE "create",
            outcome |-> "none"]]
    /\ UNCHANGED <<persistQ, dlq, qdrant>>
    /\ InsertFrame

\* `await qdrantClient.createCollection(collectionName, config)`: the store
\* rejects the creation of a collection that exists
insertCreate(q) ==
    /\ inserting[q].pc = "create"
    /\ IF qdrant[ChunkColl].exists
         THEN /\ insertFailed(q)
              /\ UNCHANGED qdrant
       ELSE /\ qdrant' = [qdrant EXCEPT ![ChunkColl].exists = TRUE]
            /\ inserting' = [inserting EXCEPT ![q].pc = "index"]
            /\ UNCHANGED <<persistQ, dlq>>
    /\ InsertFrame

\* `await qdrantClient.createPayloadIndex(collectionName, {ownerId})`
insertIndex(q) ==
    /\ inserting[q].pc = "index"
    /\ qdrant' = [qdrant EXCEPT ![ChunkColl].indexes = @ + 1]
    /\ inserting' = [inserting EXCEPT ![q].pc = "upsert"]
    /\ UNCHANGED <<persistQ, dlq>>
    /\ InsertFrame

\* `await qdrantClient.upsert(collectionName, {wait: true, points})`, then
\* the handler acks
insertUpsert(q) ==
    /\ inserting[q].pc = "upsert"
    /\ qdrant' = [qdrant EXCEPT ![ChunkColl].points =
                      upsert(@, PointsOf(Head(persistQ[q])))]
    /\ persistQ' = [persistQ EXCEPT ![q] = Tail(@)]
    /\ inserting' = [inserting EXCEPT ![q] = [pc |-> "idle", outcome |-> "ok"]]
    /\ UNCHANGED dlq
    /\ InsertFrame

\* a chunk event has been processed: its save events are on the queues of
\* the two vector-store consumers, the collection does not exist yet
InitInsert ==
    /\ InitCommon
    /\ qdrant = EmptyStore
    /\ keepDuplicateSetting = FALSE
    /\ settings.sparse = FALSE
    /\ build = "filtered"
    /\ budget = [loads |-> 0, other |-> 0, faults |-> 0,
                 votes |-> 0, searches |-> 0, saves |-> 0]

\* Doc.store of the chunk event of a content, as processMsg publishes it
publishSaves ==
    /\ \A q \in PersistQueues : persistQ[q] = << >>
    /\ qdrant = EmptyStore
    /\ dlq = EmptyBag
    /\ uuid = 0
    /\ \E content \in Contents :
        LET chunks == DocChunk("r1", content, uuid)
            msgs == DocStore("r1", chunks, settings.rerank)
        IN /\ persistQ' = [q \in PersistQueues |->
                              IF q \in QdrantQueues THEN msgs ELSE << >>]
           /\ uuid' = uuid + Len(chunks)
    /\ UNCHANGED <<ragQ, dlq, resource, mongo, qdrant, last, blocked, processed,
                   purged, settings, budget, fvars, xvars>>

NextInsert ==
    \/ publishSaves
    \/ \E q \in QdrantQueues : insertCheck(q)
    \/ \E q \in QdrantQueues : insertCreate(q)
    \/ \E q \in QdrantQueues : insertIndex(q)
    \/ \E q \in QdrantQueues : insertUpsert(q)

SpecInsert == InitInsert /\ [][NextInsert]_vars

\* C29: when the save events for a collection that does not exist yet are
\* processed by the two vector-store consumers at the same time, the
\* collection and its ownerId index are created once, every upsert succeeds
\* and no message ends in a dead-letter queue.
C29_CreatedOnceNoneFailed ==
    /\ qdrant[ChunkColl].indexes <= 1
    /\ qdrant[ChunkColl].indexes = 1 => qdrant[ChunkColl].exists
    /\ dlq = EmptyBag
    /\ \A q \in QdrantQueues : inserting[q].outcome # "failed"

-----------------------------------------------------------------------------
(* The chunks of the semantic chunker against the sentences they were made of *)

\* C30: for every sequence of sentences and every set of breakpoints the
\* chunks returned, joined by single spaces, are the sentences joined by
\* single spaces (each sentence in exactly one chunk, in the original
\* order), and no chunk is empty.
C30_ChunksPartitionSentences ==
    chunkTexts.returned =>
        /\ Join(chunkTexts.chunks) = Join(sentences)
        /\ \A k \in 1..Len(chunkTexts.chunks) : Len(chunkTexts.chunks[k]) > 0

\* four sentences were cut at a breakpoint and by the size limit: three
\* chunks came back, one of them made of two sentences
C30_CutBothWays ==
    /\ chunkTexts.returned
    /\ Len(sentences) = 4
    /\ breakpoints = {1}
    /\ Len(chunkTexts.chunks) = 3
    /\ \E k \in 1..3 : \E c \in 1..Len(chunkTexts.chunks[k]) :
           chunkTexts.chunks[k][c] = " "

====
